---- MODULE Spec2Model ----
(***************************************************************************)
(* Model of the DSS file classification and transformation planning code: *)
(*   meta/scripts/dss_autoformat.py  (class DSSAutoFormatter)              *)
(*   meta/scripts/convert_to_dss.py  (convert, main)                       *)
(*   meta/scripts/frontmatter_utils.py                                     *)
(*                                                                         *)
(* A path is a sequence of segments.  A segment is a record               *)
(*   [stem |-> <<t1, ..., tn>>, ext |-> e]                                 *)
(* that stands for the name t1_t2_..._tn followed by the suffix e, so     *)
(* "notes_1.md" is [stem |-> <<"notes","1">>, ext |-> ".md"] and          *)
(* Path.stem / Path.suffix are the two fields.                             *)
(***************************************************************************)
EXTENDS Integers, Sequences, FiniteSets, TLC

VARIABLES
    tool,            \* which program runs: "autoformat" or "convert"
    cfg,             \* command line flags / configuration of the run
    env,             \* what the program is started in: source, destination,
                     \* --config file, --dry-run
    tree,            \* the source tree: indices of Universe that exist
    pc,              \* position of the running program
    idx,             \* loop index of the running loop
    files,           \* repo_structure['files'] (autoformat)
    classifications, \* classifications dict, in insertion order (autoformat)
    plan,            \* the transformation plan (autoformat)
    destFS,          \* destination files: path -> content
    destDirs,        \* destination directories that exist
    run,             \* number of the current convert() call
    firstRunFS,      \* destination files when the first convert() returned
    attempted,       \* source files whose copy was attempted in this call
    failed,          \* source files whose copy raised in this call
    file_mapping,    \* main's file_mapping (convert)
    result,          \* return value / exit status of the program
    fm_config,       \* frontmatter_utils: the DSS configuration passed in
    fm_file,         \* frontmatter_utils: the file at file_path
    fm_call,         \* frontmatter_utils: the last call and what it returned
    cls_file,        \* _classify_single_file: the file_info it is called with
    cls_pc,          \* _classify_single_file: the stage that comes next
    cls_stages,      \* _classify_single_file: the stages called, with results
    cls_return,      \* _classify_single_file: the value returned
    rn_tool,         \* renaming: "auto_rename", "apply_naming_conventions" or
                     \* "normalize_names"
    rn_dry_run,      \* renaming: --dry-run of apply_naming_conventions
    rn_fs,           \* renaming: the files, path -> the content it holds
    rn_pending,      \* renaming: the items the loop has still to visit
    rn_last,         \* renaming: the item visited last and what was done
    rn_result,       \* renaming: renamed_files / normalized_files
    org_in_place,    \* file organization: dest_path is the repository itself
    org_tree,        \* file organization: the files of the repository
    org_pending,     \* file organization: files rglob has still to yield
    org_dest,        \* file organization: files under dest_path, path -> content
    org_copies,      \* file organization: the copies made, in order
    org_pc,          \* file organization: position of the method
    bm_initial,      \* benchmark: .cursorignore before the first call
    bm_file,         \* benchmark: .cursorignore now
    bm_calls         \* benchmark: the calls made, with the file each one left

\* the variables of dss_autoformat.py and convert_to_dss.py
progvars == <<tool, cfg, env, tree, pc, idx, files, classifications, plan, destFS,
              destDirs, run, firstRunFS, attempted, failed, file_mapping, result>>

\* the variables of frontmatter_utils.py
fmvars == <<fm_config, fm_file, fm_call>>

\* the variables of single operations that are called on their own
clsvars == <<cls_file, cls_pc, cls_stages, cls_return>>

rnvars == <<rn_tool, rn_dry_run, rn_fs, rn_pending, rn_last, rn_result>>

orgvars == <<org_in_place, org_tree, org_pending, org_dest, org_copies, org_pc>>

bmvars == <<bm_initial, bm_file, bm_calls>>

auxvars == <<clsvars, rnvars, orgvars, bmvars>>

vars == <<progvars, fmvars, auxvars>>

(***************************************************************************)
(* Bounds                                                                  *)
(***************************************************************************)
\* largest number of files in a source tree
MaxFiles == 4

\* largest number of files in a source tree when every way of starting the
\* programs is explored
MaxMainFiles == 2

\* largest number of items in a list of a front-matter field
MaxItems == 1

(***************************************************************************)
(* Paths                                                                   *)
(***************************************************************************)
Seg(stem, ext) == [stem |-> stem, ext |-> ext]

D(name) == Seg(<<name>>, "")

\* tokens that begin with a '.'
DotTokens == {".git", ".env", ".."}

StartsWithDot(seg) == seg.stem[1] \in DotTokens

\* str(counter) as it appears in f"{stem}_{counter}{suffix}"
NumStr == <<"1", "2", "3", "4", "5", "6", "7", "8">>

\* The files a source tree may contain, in directory-walk order (rglob lists
\* a directory's own entries before those of its subdirectories).
Universe ==
    << <<Seg(<<"app">>, ".py")>>,
       <<Seg(<<"notes">>, ".md")>>,
       <<Seg(<<"weird">>, ".xyz")>>,
       <<Seg(<<"debug">>, ".log")>>,
       <<D("a"), Seg(<<"notes">>, ".md")>>,
       <<D("b"), Seg(<<"notes", "1">>, ".md")>>,
       <<D("c"), Seg(<<"notes">>, ".md")>>,
       <<D("d"), Seg(<<"notes", "1">>, ".md")>>,
       <<D("logs"), Seg(<<"debug">>, ".log")>>,
       <<D("scripts"), Seg(<<"run">>, ".py")>>,
       <<D(".git"), D("objects"), D("ab"), Seg(<<"cd">>, "")>> >>

\* self.source_path after resolve(): an absolute path
SourceRoot == <<D("/"), D("home"), D("repo")>>

Name(path) == path[Len(path)]

RECURSIVE SortedSeq(_)
SortedSeq(S) ==
    IF S = {} THEN <<>>
    ELSE LET m == CHOOSE x \in S : \A y \in S : x <= y
         IN  <<m>> \o SortedSeq(S \ {m})

\* source.rglob("*") restricted to files
Walk == SortedSeq(tree)

(***************************************************************************)
(* pathlib.PurePath.match (Python 3.11): the pattern is split in segments, *)
(* a relative pattern is matched from the right, every segment with       *)
(* fnmatch, and "**" is an ordinary "*".                                   *)
(***************************************************************************)
Pat(k, tok, ext) == [k |-> k, tok |-> tok, ext |-> ext]

DStar == Pat("rec", "", "")           \* "**"
Ext(e) == Pat("ext", "", e)           \* "*.py"
Lit(t) == Pat("lit", t, "")           \* "src", ".git", ".env"
Pre(t, e) == Pat("pre", t, e)         \* "test_*.py"
Suf(t, e) == Pat("suf", t, e)         \* "*_test.py"
Dot == Pat("dot", "", "")             \* ".*"

SegMatch(seg, p) ==
    CASE p.k = "rec" -> TRUE
      [] p.k = "ext" -> seg.ext = p.ext
      [] p.k = "lit" -> seg.stem = <<p.tok>> /\ seg.ext = p.ext
      [] p.k = "pre" -> Len(seg.stem) >= 2 /\ seg.stem[1] = p.tok /\ seg.ext = p.ext
      [] p.k = "suf" -> Len(seg.stem) >= 2 /\ seg.stem[Len(seg.stem)] = p.tok
                        /\ seg.ext = p.ext
      [] p.k = "dot" -> StartsWithDot(seg)

PathMatch(path, pat) ==
    /\ Len(pat) <= Len(path)
    /\ \A j \in 1..Len(pat) : SegMatch(path[Len(path) - Len(pat) + j], pat[j])

AnyMatch(path, pats) == \E j \in 1..Len(pats) : PathMatch(path, pats[j])

(***************************************************************************)
(* DSSAutoFormatter: discovery and the classification cascade              *)
(***************************************************************************)
\* load_config's default_config['ignore_patterns']
ignore_patterns ==
    << <<DStar, Lit(".git"), DStar>>,
       <<DStar, Lit("node_modules"), DStar>>,
       <<DStar, Lit("__pycache__"), DStar>>,
       <<DStar, Lit(".venv"), DStar>>,
       <<DStar, Lit(".env")>>,
       <<DStar, Dot>> >>

\* load_config's default_config['classification_rules'], in dict order
default_classification_rules ==
    << [category |-> "src",
        patterns |-> << <<DStar, Ext(".py")>>, <<DStar, Ext(".js")>>,
                        <<DStar, Ext(".ts")>>, <<DStar, Lit("src"), DStar>>,
                        <<DStar, Lit("lib"), DStar>> >>],
       [category |-> "data",
        patterns |-> << <<DStar, Ext(".csv")>>, <<DStar, Ext(".parquet")>>,
                        <<DStar, Ext(".json")>>, <<DStar, Lit("data"), DStar>> >>],
       [category |-> "docs",
        patterns |-> << <<DStar, Ext(".md")>>, <<DStar, Ext(".rst")>>,
                        <<DStar, Lit("docs"), DStar>> >>],
       [category |-> "tests",
        patterns |-> << <<DStar, Pre("test", ".py")>>, <<DStar, Suf("test", ".py")>>,
                        <<DStar, Lit("tests"), DStar>> >>],
       [category |-> "meta",
        patterns |-> << <<DStar, Lit("meta"), DStar>>, <<DStar, Lit(".github"), DStar>>,
                        <<DStar, Lit("scripts"), DStar>> >>] >>

\* classification_rules of a --config file that lists tests before src
file_classification_rules ==
    << [category |-> "tests",
        patterns |-> << <<DStar, Pre("test", ".py")>>, <<DStar, Lit("tests"), DStar>> >>],
       [category |-> "src",
        patterns |-> << <<DStar, Ext(".py")>>, <<DStar, Lit("src"), DStar>> >>],
       [category |-> "docs",
        patterns |-> << <<DStar, Ext(".md")>>, <<DStar, Lit("docs"), DStar>> >>] >>

\* self.config['classification_rules'] after default_config.update(file_config)
classification_rules ==
    IF cfg.rules = "file" THEN file_classification_rules
    ELSE default_classification_rules

\* path.match(pattern) is called on the absolute path
should_ignore_file(path) == AnyMatch(path, ignore_patterns)

\* What _get_content_sample may return for a file: the markers the
\* heuristics of _classify_by_content look for in the first 1000 characters.
Samples(path) ==
    IF Name(path).ext = ".py"
    THEN {{}, {"main", "test"}, {"test", "config"}, {"config"}}
    ELSE IF Name(path).ext = ".ipynb"
    THEN {{}, {"badjson"}, {"analysis", "documentation"}, {"documentation"}}
    ELSE {{}}

FileInfo(i, sample) == [src |-> i, relative_path |-> Universe[i], content_sample |-> sample]

\* the category of the last rule that matches, not of the first
RECURSIVE LastRule(_, _)
LastRule(path, j) ==
    IF j > Len(classification_rules) THEN "ambiguous"
    ELSE LET later == LastRule(path, j + 1)
         IN  IF later # "ambiguous" THEN later
             ELSE IF AnyMatch(path, classification_rules[j].patterns)
             THEN classification_rules[j].category
             ELSE "ambiguous"

RECURSIVE FirstRule(_, _)
FirstRule(path, j) ==
    IF j > Len(classification_rules) THEN "ambiguous"
    ELSE IF AnyMatch(path, classification_rules[j].patterns)
         THEN classification_rules[j].category
         ELSE FirstRule(path, j + 1)

classify_by_rules(path) == FirstRule(path, 1)

classify_by_content(file_info) ==
    LET content == file_info.content_sample
        suffix == Name(file_info.relative_path).ext
    IN  IF suffix = ".py"
        THEN IF "main" \in content THEN "src"
             ELSE IF "test" \in content THEN "tests"
             ELSE IF "config" \in content THEN "meta"
             ELSE "ambiguous"
        ELSE IF suffix = ".ipynb"
        THEN IF "badjson" \in content THEN "ambiguous"
             ELSE IF "analysis" \in content THEN "data"
             ELSE IF "documentation" \in content THEN "docs"
             ELSE "ambiguous"
        ELSE "ambiguous"

valid_categories == <<"src", "data", "docs", "tests", "meta">>

\* The outcomes of the chat completion call: it raises, or it answers a text
\* that contains the names in `mentions`.
LLMOutcomes ==
    {[fails |-> TRUE, mentions |-> {}]} \cup
    {[fails |-> FALSE, mentions |-> m] :
        m \in {{}, {"data"}, {"meta"}, {"docs", "tests"}}}

RECURSIVE FirstMentioned(_, _)
FirstMentioned(mentions, j) ==
    IF j > Len(valid_categories) THEN "ambiguous"
    ELSE IF valid_categories[j] \in mentions THEN valid_categories[j]
         ELSE FirstMentioned(mentions, j + 1)

classify_by_llm(llm) ==
    IF ~cfg.openai_client THEN "ambiguous"
    ELSE IF llm.fails THEN "ambiguous"
    ELSE FirstMentioned(llm.mentions, 1)

\* a fallback without the final default for unknown extensions
classify_fallback_no_default(file_info) ==
    LET ext == Name(file_info.relative_path).ext
    IN  IF ext \in {".py", ".js", ".ts", ".java", ".cpp", ".c"} THEN "src"
        ELSE IF ext \in {".md", ".rst", ".txt"} THEN "docs"
        ELSE IF ext \in {".csv", ".json", ".xml", ".parquet"} THEN "data"
        ELSE IF ext \in {".yml", ".yaml", ".toml", ".ini"} THEN "meta"
        ELSE "ambiguous"

classify_fallback(file_info) ==
    LET ext == Name(file_info.relative_path).ext
    IN  IF ext \in {".py", ".js", ".ts", ".java", ".cpp", ".c"} THEN "src"
        ELSE IF ext \in {".md", ".rst", ".txt"} THEN "docs"
        ELSE IF ext \in {".csv", ".json", ".xml", ".parquet"} THEN "data"
        ELSE IF ext \in {".yml", ".yaml", ".toml", ".ini"} THEN "meta"
        ELSE "src"

\* a cascade that asks the LLM whether or not a client is configured
llm_stage_always == TRUE

\* self.openai_client and self.config.get('use_llm_classification', True)
llm_stage_enabled == cfg.openai_client /\ cfg.use_llm_classification

classify_single_file(file_info, llm) ==
    LET rule_based == classify_by_rules(file_info.relative_path)
        content_based == classify_by_content(file_info)
        llm_based == classify_by_llm(llm)
    IN  IF rule_based # "ambiguous" THEN rule_based
        ELSE IF content_based # "ambiguous" THEN content_based
        ELSE IF llm_stage_enabled
                /\ llm_based # "ambiguous" THEN llm_based
        ELSE classify_fallback(file_info)

(***************************************************************************)
(* DSSAutoFormatter: the transformation plan                               *)
(***************************************************************************)
Dests(moves) == {moves[k].dest : k \in 1..Len(moves)}

Parent(path) == SubSeq(path, 1, Len(path) - 1)

\* the while loop of _resolve_naming_conflict
RECURSIVE ResolveLoop(_, _, _, _, _)
ResolveLoop(dest_path, original_stem, original_suffix, counter, existing_moves) ==
    IF dest_path \in Dests(existing_moves)
    THEN ResolveLoop(Parent(dest_path)
                        \o <<Seg(Append(original_stem, NumStr[counter]), original_suffix)>>,
                     original_stem, original_suffix, counter + 1, existing_moves)
    ELSE dest_path

\* a resolver without the loop: it only ever tries the suffix _1
resolve_naming_conflict_once(dest_path, existing_moves) ==
    Parent(dest_path) \o <<Seg(Append(Name(dest_path).stem, NumStr[1]), Name(dest_path).ext)>>

\* a resolver whose counter starts at 2
resolve_naming_conflict_from_two(dest_path, existing_moves) ==
    IF dest_path \in Dests(existing_moves)
    THEN ResolveLoop(Parent(dest_path)
                        \o <<Seg(Append(Name(dest_path).stem, NumStr[2]), Name(dest_path).ext)>>,
                     Name(dest_path).stem, Name(dest_path).ext, 3, existing_moves)
    ELSE dest_path

resolve_naming_conflict(dest_path, existing_moves) ==
    ResolveLoop(dest_path, Name(dest_path).stem, Name(dest_path).ext, 1, existing_moves)

EmptyPlan == [file_moves |-> <<>>, conflicts |-> <<>>]

\* a planning step that renames without recording the conflict
PlanFileUnrecorded(p, entry) ==
    LET proposed == <<D(entry.category), Name(entry.file)>>
        dest_path == IF proposed \in Dests(p.file_moves)
                     THEN resolve_naming_conflict(proposed, p.file_moves)
                     ELSE proposed
    IN  [file_moves |-> Append(p.file_moves,
                               [src |-> entry.src, source |-> entry.file,
                                dest |-> dest_path, category |-> entry.category]),
         conflicts |-> p.conflicts]

\* a planning step that leaves out a file whose destination is taken
PlanFileSkippingConflicts(p, entry) ==
    IF <<D(entry.category), Name(entry.file)>> \in Dests(p.file_moves) THEN p
    ELSE [file_moves |-> Append(p.file_moves,
                                [src |-> entry.src, source |-> entry.file,
                                 dest |-> <<D(entry.category), Name(entry.file)>>,
                                 category |-> entry.category]),
          conflicts |-> p.conflicts]

\* one iteration of the "Plan file movements" loop
PlanFile(p, entry) ==
    LET source_path == entry.file
        proposed == <<D(entry.category), Name(source_path)>>
        conflict == proposed \in Dests(p.file_moves)
        dest_path == IF conflict THEN resolve_naming_conflict(proposed, p.file_moves)
                     ELSE proposed
    IN  [file_moves |-> Append(p.file_moves,
                               [src |-> entry.src, source |-> source_path,
                                dest |-> dest_path, category |-> entry.category]),
         conflicts |-> IF conflict
                       THEN Append(p.conflicts,
                                   [type |-> "naming_conflict", file |-> entry.file,
                                    resolution |-> dest_path])
                       ELSE p.conflicts]

RECURSIVE PlanFiles(_, _)
PlanFiles(entries, n) ==
    IF n = 0 THEN EmptyPlan ELSE PlanFile(PlanFiles(entries, n - 1), entries[n])

create_transformation_plan(entries) == PlanFiles(entries, Len(entries))

(***************************************************************************)
(* dss_autoformat.py: enhancement and validation                           *)
(***************************************************************************)
MetadataExts == {".py", ".md"}

\* _inject_file_metadata: skipped when the content starts with '---' or
\* '"""---', which is how the blocks it writes start
inject_file_metadata(content, ext) ==
    IF content.fm > 0 \/ ext \notin MetadataExts THEN content
    ELSE [content EXCEPT !.fm = 1]

\* _inject_metadata over dest_path.rglob('*.py') and rglob('*.md')
inject_all_metadata(fs) ==
    IF DOMAIN fs = {} THEN fs
    ELSE [p \in DOMAIN fs |-> inject_file_metadata(fs[p], Name(p).ext)]

DocDirs == {"src", "data", "docs", "meta", "tests"}

\* _generate_basic_docs: a README.md, with front-matter and a table of the
\* directory's files, in each of the five directories that exists and has none
generate_basic_docs(fs, dirs) ==
    LET readmes == {<<D(d), Seg(<<"README">>, ".md")>> :
                        d \in {d \in DocDirs : <<D(d)>> \in dirs}}
        new == readmes \ DOMAIN fs
    IN  IF new = {} THEN fs
        ELSE [p \in DOMAIN fs \cup new |->
                 IF p \in new
                 THEN [kind |-> "stub", src |-> 0, fm |-> 1,
                       listing |-> {q \in DOMAIN fs : Parent(q) = Parent(p)}]
                 ELSE fs[p]]

IndexPath == <<Seg(<<"INDEX">>, ".md")>>

\* _create_index_file
create_index_file(fs) ==
    (IndexPath :> [kind |-> "index", src |-> 0, fm |-> 1, listing |-> {}]) @@ fs

\* _validate_structure
validate_structure(fs, dirs) ==
    /\ \A d \in {"src", "data", "docs", "meta"} : <<D(d)>> \in dirs
    /\ IndexPath \in DOMAIN fs

\* the fewest entries of dest_path.rglob('*') _validate_file_integrity accepts
MinEntries == 5

\* _validate_file_integrity
validate_file_integrity(fs, dirs) ==
    Cardinality(DOMAIN fs) + Cardinality(dirs \ {<<>>}) >= MinEntries

\* _validate_metadata: at least half of the .md and .py files carry a block
validate_metadata(fs) ==
    LET candidates == {p \in DOMAIN fs : Name(p).ext \in MetadataExts}
        with_metadata == {p \in candidates : fs[p].fm > 0}
    IN  candidates # {} => 2 * Cardinality(with_metadata) >= Cardinality(candidates)

(***************************************************************************)
(* convert_to_dss.py                                                       *)
(***************************************************************************)
DEFAULT_SKELETON == <<"data", "src", "docs", "canvas", "meta", "tests">>

SkeletonSet == {DEFAULT_SKELETON[k] : k \in 1..Len(DEFAULT_SKELETON)}

\* a class map whose default is "src"
classify_unknown_as_src(file_path) ==
    LET suffix == Name(file_path).ext
    IN  IF suffix \in {".py", ".ipynb", ".r", ".js", ".ts", ".cpp"} THEN "src"
        ELSE IF suffix \in {".md", ".rst"} THEN "docs"
        ELSE IF suffix \in {".csv", ".json", ".parquet", ".xlsx"} THEN "data"
        ELSE "src"

\* DEFAULT_CLASS_MAP.get(suffix, "misc")
classify(file_path) ==
    LET suffix == Name(file_path).ext
    IN  IF suffix \in {".py", ".ipynb", ".r", ".js", ".ts", ".cpp"} THEN "src"
        ELSE IF suffix \in {".md", ".rst"} THEN "docs"
        ELSE IF suffix \in {".csv", ".json", ".parquet", ".xlsx"} THEN "data"
        ELSE "misc"

\* set(cfg.get("ignore", [])): the --config file of the run holds
\* ignore: ["**/*.log"]; without it no pattern is configured
ignored == IF cfg.loaded = "file" THEN << <<DStar, Ext(".log")>> >> ELSE <<>>

\* cfg["naming_rules"]["overrides"] of the run: {"scripts/run.py": "main_runner.py"}
overrides == [path |-> <<D("scripts"), Seg(<<"run">>, ".py")>>,
              name |-> Seg(<<"main", "runner">>, ".py")]

\* with rules that hold only `overrides`: no ignore_patterns and every
\* transformation style "keep"
transform_filename(path) ==
    IF path = overrides.path THEN overrides.name ELSE Name(path)

\* normalize_names over a mapping given as a sequence of [orig, dest]
normalize_names(mapping) ==
    [k \in 1..Len(mapping) |->
        [orig |-> mapping[k].orig,
         dest |-> Parent(mapping[k].dest) \o <<transform_filename(mapping[k].dest)>>]]

BinaryExts == {".png", ".jpg", ".jpeg", ".gif", ".pdf", ".zip", ".gz", ".tar",
               ".tgz", ".exe", ".dll", ".so", ".dylib"}

Content(kind, src, fm, listing) ==
    [kind |-> kind, src |-> src, fm |-> fm, listing |-> listing]

\* original.lstrip().startswith("---"): a front-matter block written for a
\* .py file is wrapped in a docstring and begins with three double quotes
StartsWithDashes(fp, content) ==
    content.fm > 0 /\ Name(fp).ext # ".py"



\* the files after inject_metadata(fp, ...)
inject_metadata(fs, fp) ==
    IF Name(fp).ext \in BinaryExts THEN fs
    ELSE IF StartsWithDashes(fp, fs[fp]) THEN fs
    ELSE [fs EXCEPT ![fp].fm = @ + 1]

Exists(fs, path) == path \in DOMAIN fs

Write(fs, path, content) == (path :> content) @@ fs

\* whether copy_file(src, dest, overwrite) reaches shutil.copy2
CopyNeeded(fs, dest, overwrite) == ~(Exists(fs, dest) /\ ~overwrite)

\* the files after copy_file(src, dest, overwrite) when copy2 succeeds
copy_file(fs, src, dest, overwrite) ==
    IF CopyNeeded(fs, dest, overwrite)
    THEN Write(fs, dest, Content("copy", src, 0, {}))
    ELSE fs

\* a destination that drops the category folder
DstPathFlat(file_path) == <<Name(file_path)>>

DstPath(file_path) ==
    LET category == classify(file_path)
    IN  IF category \in SkeletonSet THEN <<D(category), Name(file_path)>>
        ELSE <<D("meta"), D("misc"), Name(file_path)>>

\* any(part.startswith(".") for part in src_file.parts)
HasDotPart(parts) == \E k \in 1..Len(parts) : StartsWithDot(parts[k])

\* src_file comes from args.source.rglob("*"): its parts begin with the
\* parts of --source as given on the command line
ConvertSkips(rel_src_path) ==
    AnyMatch(rel_src_path, ignored) \/ HasDotPart(env.source \o rel_src_path)

README == Seg(<<"README">>, ".md")

ManifestPath == <<D("meta"), Seg(<<"manifest">>, ".json")>>

RECURSIVE StubReadmes(_, _)
StubReadmes(fs, n) ==
    IF n = 0 THEN fs
    ELSE LET done == StubReadmes(fs, n - 1)
             rd == <<D(DEFAULT_SKELETON[n]), README>>
         IN  IF Exists(done, rd) THEN done
             ELSE Write(done, rd, Content("stub", 0, 0, {}))

\* the --dest argument
DestRoot == <<D("out")>>

\* the members of S in the order in which the walk meets them
RECURSIVE Listed(_)
Listed(S) ==
    IF S = {} THEN <<>>
    ELSE LET path == CHOOSE x \in S : TRUE
         IN  <<path>> \o Listed(S \ {path})

\* a manifest with every file under the key of the destination root
generate_manifest_under_root(fs) ==
    [folder \in {DestRoot} |-> Listed(DOMAIN fs)]

\* generate_manifest: every file found by dest_root.rglob("*") is appended,
\* as a path relative to dest_root, to the list of path.parent
generate_manifest(fs) ==
    [folder \in {DestRoot \o Parent(path) : path \in DOMAIN fs} |->
        Listed({path \in DOMAIN fs : DestRoot \o Parent(path) = folder})]

\* steps 2 to 4 of convert()
ConvertTail(fs) ==
    LET withReadmes == StubReadmes(fs, Len(DEFAULT_SKELETON))
        withManifest == Write(withReadmes, ManifestPath,
                              Content("manifest", 0, 0, generate_manifest(withReadmes)))
    IN  IF Exists(withManifest, <<README>>) THEN withManifest
        ELSE Write(withManifest, <<README>>, Content("root_readme", 0, 0, {}))

(***************************************************************************)
(* frontmatter_utils.py                                                    *)
(*                                                                         *)
(* A YAML value is a record [t, v, items]: t is its Python type ("str",    *)
(* "int", "dict" or "list"), v the text of a scalar and items the items    *)
(* of a list, each an [t, v] record.  Front-matter is a function from      *)
(* field names to values.                                                  *)
(***************************************************************************)
Item(t, v) == [t |-> t, v |-> v]

YScalar(t, v) == [t |-> t, v |-> v, items |-> <<>>]

YList(items) == [t |-> "list", v |-> "", items |-> items]

\* isinstance(value, list) and isinstance(value, str)
IsList(value) == value.t = "list"

IsStr(value) == value.t = "str"

\* a message: an optional prefix, the fixed text, and the field and the item
\* the text is about
Msg(text, field, item) == [prefix |-> "", text |-> text, field |-> field, item |-> item]

ListFields == <<"tags", "provides", "requires">>

\* the fields of config["defaults"] that the front-matter lacks, in the
\* order of the config
MissingDefaults(frontmatter, conf) ==
    LET Lacks(d) == d.field \notin DOMAIN frontmatter
    IN  IF conf.has_defaults THEN SelectSeq(conf.defaults, Lacks) ELSE <<>>

\* the errors validate_frontmatter appends for one of tags, provides, requires
FormatErrors(frontmatter, field, not_a_list, not_a_string) ==
    IF field \notin DOMAIN frontmatter THEN <<>>
    ELSE IF ~IsList(frontmatter[field]) THEN <<Msg(not_a_list, field, "")>>
    ELSE LET NotStr(item) == item.t # "str"
             bad == SelectSeq(frontmatter[field].items, NotStr)
         IN  [k \in 1..Len(bad) |-> Msg(not_a_string, field, bad[k].v)]

MissingErrors(frontmatter, conf) ==
    LET missing == MissingDefaults(frontmatter, conf)
    IN  [k \in 1..Len(missing) |-> Msg("Missing required field", missing[k].field, "")]

\* a validation that does not look at the items of a list
validate_frontmatter_shallow(frontmatter, conf) ==
    LET NotAList(field) == field \in DOMAIN frontmatter /\ ~IsList(frontmatter[field])
        wrong == SelectSeq(ListFields, NotAList)
    IN  MissingErrors(frontmatter, conf)
        \o [k \in 1..Len(wrong) |->
               Msg(IF wrong[k] = "tags" THEN "Tags must be a list" ELSE "must be a list",
                   wrong[k], "")]

validate_frontmatter(frontmatter, conf) ==
    MissingErrors(frontmatter, conf)
    \o FormatErrors(frontmatter, "tags", "Tags must be a list", "Tag must be a string")
    \o FormatErrors(frontmatter, "provides", "must be a list", "Item must be a string")
    \o FormatErrors(frontmatter, "requires", "must be a list", "Item must be a string")

\* the front-matter after the loop that adds the missing default fields
AddDefaults(frontmatter, conf) ==
    LET missing == MissingDefaults(frontmatter, conf)
        added == {missing[k].field : k \in 1..Len(missing)}
        DefaultValue(f) == (CHOOSE d \in {missing[k] : k \in 1..Len(missing)} : d.field = f).value
    IN  IF added = {} THEN frontmatter
        ELSE [f \in DOMAIN frontmatter \cup added |->
                 IF f \in added THEN DefaultValue(f) ELSE frontmatter[f]]

\* the front-matter after the format of one field has been corrected
CorrectFormat(frontmatter, field, replacement) ==
    IF field \in DOMAIN frontmatter /\ ~IsList(frontmatter[field])
    THEN [frontmatter EXCEPT ![field] =
             IF IsStr(@) THEN YList(<<Item("str", @.v)>>) ELSE replacement]
    ELSE frontmatter

FormatCorrections(frontmatter, field) ==
    IF field \in DOMAIN frontmatter /\ ~IsList(frontmatter[field])
    THEN IF IsStr(frontmatter[field])
         THEN <<Msg("Converted from string to list", field, "")>>
         ELSE <<Msg(IF field = "tags" THEN "Replaced invalid tags with ['draft']"
                    ELSE "Replaced invalid with empty list", field, "")>>
    ELSE <<>>

DraftTags == YList(<<Item("str", "draft")>>)

\* an auto-correction that does not add the missing default fields
auto_correct_without_defaults(frontmatter, conf) ==
    [corrected |->
        CorrectFormat(CorrectFormat(CorrectFormat(frontmatter, "tags", DraftTags),
                                    "provides", YList(<<>>)),
                      "requires", YList(<<>>)),
     corrections |->
        FormatCorrections(frontmatter, "tags")
        \o FormatCorrections(frontmatter, "provides")
        \o FormatCorrections(frontmatter, "requires")]

\* auto_correct_frontmatter returns (corrected, corrections)
auto_correct_frontmatter(frontmatter, conf) ==
    LET missing == MissingDefaults(frontmatter, conf)
        with_defaults == AddDefaults(frontmatter, conf)
    IN  [corrected |->
            CorrectFormat(CorrectFormat(CorrectFormat(with_defaults, "tags", DraftTags),
                                        "provides", YList(<<>>)),
                          "requires", YList(<<>>)),
         corrections |->
            [k \in 1..Len(missing) |-> Msg("Added missing field", missing[k].field, "")]
            \o FormatCorrections(with_defaults, "tags")
            \o FormatCorrections(with_defaults, "provides")
            \o FormatCorrections(with_defaults, "requires")]

\* What a file holds, as extract_frontmatter sees it: no front-matter block
\* ("none"), a block that is not valid YAML or is an empty mapping, for both
\* of which {} is returned ("empty"), or a block with a mapping ("yaml").
Text(kind, data) == [kind |-> kind, data |-> data]

NoText == Text("none", <<>>)

\* the block written from a dictionary by yaml.dump and read back by
\* yaml.safe_load: yaml.dump({}) is the text "{}"
Dumped(frontmatter) ==
    IF DOMAIN frontmatter = {} THEN Text("empty", <<>>) ELSE Text("yaml", frontmatter)

\* extract_frontmatter
extract_frontmatter(file) ==
    IF file.suffix \notin {".md", ".py"} THEN NoText ELSE file.text

\* config.get("defaults", {}) as a dictionary
DefaultFrontmatter(conf) ==
    IF ~conf.has_defaults \/ conf.defaults = <<>> THEN <<>>
    ELSE [f \in {conf.defaults[k].field : k \in 1..Len(conf.defaults)} |->
             (CHOOSE d \in {conf.defaults[k] : k \in 1..Len(conf.defaults)} : d.field = f).value]

Prefixed(prefix, messages) ==
    [k \in 1..Len(messages) |-> [messages[k] EXCEPT !.prefix = prefix]]

Outcome(success, messages, text) ==
    [success |-> success, messages |-> messages, text |-> text]

\* process_file returns (success, messages); text is what the file holds
\* afterwards.  io_ok tells whether reading and writing the file succeed.
process_file(file, conf, dry_run, auto_correct, io_ok) ==
    LET frontmatter == extract_frontmatter(file)
        errors == validate_frontmatter(frontmatter.data, conf)
        fixed == auto_correct_frontmatter(frontmatter.data, conf)
        reported == Prefixed("Validation error: ", errors)
                    \o Prefixed("Auto-correction: ", fixed.corrections)
    IN  IF file.suffix \notin {".md", ".py"}
        THEN Outcome(FALSE, <<Msg("Skipping unsupported file type", "", "")>>, file.text)
        ELSE IF file.ignored
        THEN Outcome(FALSE, <<Msg("Skipping ignored file", "", "")>>, file.text)
        ELSE IF frontmatter.kind = "none"
        THEN IF auto_correct /\ ~dry_run
             THEN IF io_ok
                  THEN Outcome(TRUE,
                               <<Msg("No frontmatter found", "", ""),
                                 Msg("Added default frontmatter", "", "")>>,
                               Dumped(DefaultFrontmatter(conf)))
                  ELSE Outcome(FALSE,
                               <<Msg("No frontmatter found", "", ""),
                                 Msg("Error adding frontmatter", "", "")>>,
                               file.text)
             ELSE Outcome(FALSE, <<Msg("No frontmatter found", "", "")>>, file.text)
        ELSE IF frontmatter.kind = "empty"
        THEN Outcome(FALSE, <<Msg("Malformed YAML in frontmatter", "", "")>>, file.text)
        ELSE IF errors # <<>>
        THEN IF ~auto_correct
             THEN Outcome(FALSE, Prefixed("Validation error: ", errors), file.text)
             ELSE IF fixed.corrections = <<>> \/ dry_run
             THEN Outcome(FALSE, reported, file.text)
             ELSE IF io_ok
             THEN Outcome(FALSE, reported \o <<Msg("Updated frontmatter", "", "")>>,
                          Dumped(fixed.corrected))
             ELSE Outcome(FALSE, reported \o <<Msg("Error updating frontmatter", "", "")>>,
                          file.text)
        ELSE Outcome(TRUE, <<Msg("Frontmatter validation passed", "", "")>>, file.text)

(***************************************************************************)
(* State machine                                                           *)
(***************************************************************************)
NoCfg == [openai_client |-> FALSE, use_llm_classification |-> TRUE,
          force |-> FALSE, normalize_names |-> FALSE, dry_run |-> FALSE,
          loaded |-> "defaults", rules |-> "defaults"]

\* The run most claims are about: the source exists, --dest does not, --config
\* names a readable file and --dry-run is not given.
DefaultEnv == [source |-> <<D("repo")>>, source_exists |-> TRUE, dest |-> "absent",
               config |-> "ok", dry_run |-> FALSE]

\* --source is repo or ../repo;
\* --config is not given ("none"), names a readable YAML file ("ok"), a file
\* that does not exist ("missing") or one yaml.safe_load rejects
\* ("unparseable"); --dest does not exist, is an empty directory, or holds a
\* file somebody wrote
Envs == [source : {<<D("repo")>>, <<D(".."), D("repo")>>},
         source_exists : BOOLEAN, dest : {"absent", "empty", "populated"},
         config : {"none", "ok", "missing", "unparseable"}, dry_run : BOOLEAN]

\* docs/notes.md, written by hand, without front-matter
UserFile == <<D("docs"), Seg(<<"notes">>, ".md")>>

InitialFS(dest) ==
    IF dest = "populated" THEN (UserFile :> Content("user", 0, 0, {})) ELSE <<>>

InitialDirs(dest) ==
    IF dest = "absent" THEN {}
    ELSE IF dest = "empty" THEN {<<>>}
    ELSE {<<>>, Parent(UserFile)}

InitEnv(environments, candidates, max_files) ==
    /\ env \in environments
    /\ tree \in {S \in SUBSET candidates :
                    /\ Cardinality(S) <= max_files
                    /\ ~env.source_exists => S = {}}
    /\ tool = "none"
    /\ cfg = NoCfg
    /\ pc = "start"
    /\ idx = 1
    /\ files = <<>>
    /\ classifications = <<>>
    /\ plan = EmptyPlan
    /\ destFS = InitialFS(env.dest)
    /\ destDirs = InitialDirs(env.dest)
    /\ run = 0
    /\ firstRunFS = <<>>
    /\ attempted = {}
    /\ failed = {}
    /\ file_mapping = <<>>
    /\ result = "running"

\* the value of a variable whose operation is not being called
NotCalled == FALSE

\* _classify_single_file is not being called
ClassifyIdle ==
    /\ cls_file = NotCalled
    /\ cls_pc = NotCalled
    /\ cls_stages = NotCalled
    /\ cls_return = NotCalled

NoItem == [item |-> <<>>, target |-> <<>>, outcome |-> "none"]

\* no renaming script runs
RenameIdle ==
    /\ rn_tool = NotCalled
    /\ rn_dry_run = NotCalled
    /\ rn_fs = NotCalled
    /\ rn_pending = NotCalled
    /\ rn_last = NotCalled
    /\ rn_result = NotCalled

\* _cursor_native_file_organization does not run
OrganizeIdle ==
    /\ org_in_place = NotCalled
    /\ org_tree = NotCalled
    /\ org_pending = NotCalled
    /\ org_dest = NotCalled
    /\ org_copies = NotCalled
    /\ org_pc = NotCalled

\* .cursorignore: whether it exists, its lines, and whether the last line
\* ends with a newline
CursorIgnore(lines, eol) == [exists |-> TRUE, lines |-> lines, eol |-> eol]

Absent == [exists |-> FALSE, lines |-> <<>>, eol |-> TRUE]

\* the benchmark runner does not run
BenchmarkIdle ==
    /\ bm_initial = NotCalled
    /\ bm_file = NotCalled
    /\ bm_calls = NotCalled

\* no operation is being called on its own
AuxIdle ==
    /\ ClassifyIdle
    /\ RenameIdle
    /\ OrganizeIdle
    /\ BenchmarkIdle

(* the inputs of frontmatter_utils *)
ItemValues == {Item("str", "test"), Item("int", "1")}

Values ==
    {YScalar("str", "test"), YScalar("int", "123"), YScalar("dict", "")}
    \cup {YList(items) : items \in UNION {[1..n -> ItemValues] : n \in 0..MaxItems}}

Frontmatters ==
    UNION {[S -> Values] : S \in SUBSET {"tags", "provides", "requires"}}

\* tests/test_frontmatter_validation.py, temp_config
StdDefaults ==
    << [field |-> "tags", value |-> DraftTags],
       [field |-> "provides", value |-> YList(<<>>)],
       [field |-> "requires", value |-> YList(<<>>)] >>

\* defaults that give tags as a plain string and name one more field
OddDefaults ==
    << [field |-> "status", value |-> YScalar("str", "draft")],
       [field |-> "tags", value |-> YScalar("str", "draft")] >>

Configs ==
    {[has_defaults |-> FALSE, defaults |-> <<>>],
     [has_defaults |-> TRUE, defaults |-> StdDefaults],
     [has_defaults |-> TRUE, defaults |-> OddDefaults]}

FileAt(suffix, is_ignored, text) ==
    [suffix |-> suffix, ignored |-> is_ignored, text |-> text]

\* a Markdown or Python file with any front-matter or none, a file of
\* another type, and a file that an ignore pattern of the config matches
Files ==
    {FileAt(suffix, FALSE, text) :
        suffix \in {".md", ".py"}, text \in {NoText} \cup {Dumped(f) : f \in Frontmatters}}
    \cup {FileAt(".txt", FALSE, NoText), FileAt(".md", TRUE, NoText)}

NoCall ==
    [op |-> "none", dry_run |-> FALSE, auto_correct |-> FALSE, io_ok |-> TRUE,
     input |-> NoText, success |-> FALSE, messages |-> <<>>, corrected |-> <<>>]

Init ==
    /\ InitEnv({DefaultEnv}, 1..Len(Universe), MaxFiles)
    /\ fm_config = [has_defaults |-> TRUE, defaults |-> StdDefaults]
    /\ fm_file = FileAt(".md", FALSE, NoText)
    /\ fm_call = NoCall
    /\ AuxIdle

\* the files at the root of the source tree, a/notes.md and the .git object
MainFiles ==
    {i \in 1..Len(Universe) :
        Len(Universe[i]) = 1 \/ Universe[i][1] \in {D("a"), D(".git")}}

\* every way of starting either program, over small source trees
InitMain ==
    /\ InitEnv(Envs, MainFiles, MaxMainFiles)
    /\ fm_config = [has_defaults |-> TRUE, defaults |-> StdDefaults]
    /\ fm_file = FileAt(".md", FALSE, NoText)
    /\ fm_call = NoCall
    /\ AuxIdle

\* frontmatter_utils is called on any file under any configuration
InitFrontmatter ==
    /\ InitEnv({DefaultEnv}, {}, MaxFiles)
    /\ fm_config \in Configs
    /\ fm_file \in Files
    /\ fm_call = NoCall
    /\ AuxIdle

\* args.dest.exists() and any(args.dest.iterdir())
DestNonEmpty == DOMAIN destFS # {} \/ destDirs \ {<<>>} # {}

\* dss_autoformat.load_config: a missing file is skipped and a failing
\* yaml.safe_load is caught with a warning; both leave the defaults
autoformat_load_config(config_file) ==
    IF config_file = "ok" THEN "file" ELSE "defaults"

\* dss_autoformat.main up to transform_repository
autoformat_main ==
    /\ pc = "start"
    /\ \E client \in BOOLEAN, no_llm \in BOOLEAN, answer_y \in BOOLEAN :
          IF ~env.source_exists \/ (DestNonEmpty /\ ~answer_y)
          THEN /\ pc' = "exited"
               /\ result' = "exit 1"
               /\ UNCHANGED cfg
          ELSE /\ cfg' = [NoCfg EXCEPT !.openai_client = client,
                                       !.use_llm_classification = ~no_llm,
                                       !.dry_run = env.dry_run,
                                       !.loaded = autoformat_load_config(env.config)]
               /\ pc' = "discover"
               /\ UNCHANGED result
    /\ tool' = "autoformat"
    /\ UNCHANGED <<tree, env, fmvars, auxvars, idx, files, classifications, plan, destFS, destDirs, run,
                   firstRunFS, attempted, failed, file_mapping>>

\* one iteration of the walk of _discover_repository
discover_file ==
    /\ pc = "discover"
    /\ idx <= Len(Walk)
    /\ LET path == Universe[Walk[idx]]
       IN  IF should_ignore_file(SourceRoot \o path)
           THEN files' = files
           ELSE \E sample \in Samples(path) :
                    files' = Append(files, FileInfo(Walk[idx], sample))
    /\ idx' = idx + 1
    /\ UNCHANGED <<tool, cfg, tree, env, fmvars, auxvars, pc, classifications, plan, destFS, destDirs, run,
                   firstRunFS, attempted, failed, file_mapping, result>>

discover_repository_return ==
    /\ pc = "discover"
    /\ idx > Len(Walk)
    /\ pc' = "classify"
    /\ idx' = 1
    /\ UNCHANGED <<tool, cfg, tree, env, fmvars, auxvars, files, classifications, plan, destFS, destDirs, run,
                   firstRunFS, attempted, failed, file_mapping, result>>

\* one iteration of the loop of _classify_files
classify_file ==
    /\ pc = "classify"
    /\ idx <= Len(files)
    /\ \E llm \in LLMOutcomes :
          classifications' =
              Append(classifications,
                     [src |-> files[idx].src, file |-> files[idx].relative_path,
                      category |-> classify_single_file(files[idx], llm)])
    /\ idx' = idx + 1
    /\ UNCHANGED <<tool, cfg, tree, env, fmvars, auxvars, pc, files, plan, destFS, destDirs, run,
                   firstRunFS, attempted, failed, file_mapping, result>>

\* _classify_files returns and _create_transformation_plan builds the plan
plan_transformation ==
    /\ pc = "classify"
    /\ idx > Len(files)
    /\ plan' = create_transformation_plan(classifications)
    /\ pc' = "execute"
    /\ idx' = 1
    /\ UNCHANGED <<tool, cfg, tree, env, fmvars, auxvars, files, classifications, destFS, destDirs, run,
                   firstRunFS, attempted, failed, file_mapping, result>>

directory_structure == {"src", "data", "docs", "meta", "tests", "canvas"}

\* _execute_transformation up to the copy loop; with dry_run it prints the
\* plan and returns True at once
execute_begin ==
    /\ pc = "execute"
    /\ IF cfg.dry_run
       THEN /\ pc' = "executed"
            /\ result' = "True"
            /\ UNCHANGED destDirs
       ELSE /\ destDirs' = destDirs \cup {<<>>} \cup {<<D(d)>> : d \in directory_structure}
            /\ pc' = "copy"
            /\ UNCHANGED result
    /\ UNCHANGED <<tool, cfg, tree, env, fmvars, auxvars, idx, files, classifications, plan, destFS, run,
                   firstRunFS, attempted, failed, file_mapping>>

\* a copy loop whose failure does not stop transform_repository
execute_copy_unchecked ==
    /\ pc = "copy"
    /\ idx <= Len(plan.file_moves)
    /\ LET move == plan.file_moves[idx]
       IN  /\ attempted' = attempted \cup {move.src}
           /\ destDirs' = destDirs \cup {Parent(move.dest)}
           /\ \/ /\ destFS' = Write(destFS, move.dest, Content("copy", move.src, 0, {}))
                 /\ idx' = idx + 1
                 /\ UNCHANGED <<pc, failed, result>>
              \/ /\ failed' = failed \cup {move.src}
                 /\ pc' = "executed"
                 /\ result' = "False"
                 /\ UNCHANGED <<destFS, idx>>
    /\ UNCHANGED <<tool, cfg, tree, env, fmvars, auxvars, files, classifications, plan, run,
                   firstRunFS, file_mapping>>

\* one iteration of the copy loop: the parent directory is made, then
\* shutil.copy2 succeeds, or it raises and the except clause around the whole
\* loop returns False
execute_copy ==
    /\ pc = "copy"
    /\ idx <= Len(plan.file_moves)
    /\ LET move == plan.file_moves[idx]
       IN  /\ attempted' = attempted \cup {move.src}
           /\ destDirs' = destDirs \cup {Parent(move.dest)}
           /\ \/ /\ destFS' = Write(destFS, move.dest, Content("copy", move.src, 0, {}))
                 /\ idx' = idx + 1
                 /\ UNCHANGED <<pc, failed, result>>
              \/ /\ failed' = failed \cup {move.src}
                 /\ pc' = "failed"
                 /\ result' = "False"
                 /\ UNCHANGED <<destFS, idx>>
    /\ UNCHANGED <<tool, cfg, tree, env, fmvars, auxvars, files, classifications, plan, run,
                   firstRunFS, file_mapping>>

\* the copy loop is over: _copy_dss_template_files only downloads template
\* files (every failure is caught) and the method returns True
execute_return ==
    /\ pc = "copy"
    /\ idx > Len(plan.file_moves)
    /\ pc' = "executed"
    /\ result' = "True"
    /\ UNCHANGED <<tool, cfg, tree, env, fmvars, auxvars, idx, files, classifications, plan, destFS, destDirs,
                   run, firstRunFS, attempted, failed, file_mapping>>

\* _enhance_repository, without the git and Cursor steps (gitpython is an
\* optional import and the Cursor rules are downloaded; a failure of either
\* is caught).  write_text of INDEX.md raises when the destination directory
\* does not exist, and transform_repository's except clause returns False.
enhance_repository ==
    /\ pc = "executed"
    /\ LET documented == generate_basic_docs(inject_all_metadata(destFS), destDirs)
       IN  IF <<>> \in destDirs
           THEN /\ destFS' = create_index_file(documented)
                /\ pc' = "enhanced"
                /\ UNCHANGED result
           ELSE /\ destFS' = documented
                /\ pc' = "failed"
                /\ result' = "False"
    /\ UNCHANGED <<tool, cfg, tree, env, fmvars, auxvars, idx, files, classifications, plan, destDirs, run,
                   firstRunFS, attempted, failed, file_mapping>>

\* _validate_transformation: its result is what transform_repository returns
validate_transformation ==
    /\ pc = "enhanced"
    /\ pc' = "validated"
    /\ result' = IF /\ validate_structure(destFS, destDirs)
                    /\ validate_file_integrity(destFS, destDirs)
                    /\ validate_metadata(destFS)
                 THEN "True" ELSE "False"
    /\ UNCHANGED <<tool, cfg, tree, env, fmvars, auxvars, idx, files, classifications, plan, destFS,
                   destDirs, run, firstRunFS, attempted, failed, file_mapping>>

\* a main that checks the source only
main_refuses_source_only(source_exists, dest_non_empty, force) ==
    ~source_exists

\* the two path checks at the top of convert_to_dss.main
main_refuses(source_exists, dest_non_empty, force) ==
    ~source_exists \/ (dest_non_empty /\ ~force)

\* a load_config that falls back to {} when the file cannot be parsed
convert_load_config_lenient(config_file) ==
    IF config_file = "ok" THEN "file" ELSE "defaults"

\* convert_to_dss.load_config: {} unless the path is given and exists; a
\* failing yaml.safe_load is not caught
convert_load_config(config_file) ==
    IF config_file = "ok" THEN "file"
    ELSE IF config_file = "unparseable" THEN "raise"
    ELSE "defaults"

\* convert_to_dss.main up to the call of convert()
convert_main ==
    /\ pc = "start"
    /\ \E force \in BOOLEAN, normalize \in BOOLEAN :
          IF main_refuses(env.source_exists, DestNonEmpty, force)
          THEN /\ cfg' = [NoCfg EXCEPT !.force = force, !.normalize_names = normalize]
               /\ pc' = "exited"
               /\ result' = "exit 1"
               /\ UNCHANGED <<file_mapping, run>>
          ELSE IF convert_load_config(env.config) = "raise"
          THEN /\ cfg' = [NoCfg EXCEPT !.force = force, !.normalize_names = normalize]
               /\ pc' = "exited"
               /\ result' = "exception"
               /\ UNCHANGED <<file_mapping, run>>
          ELSE /\ cfg' = [NoCfg EXCEPT !.force = force, !.normalize_names = normalize,
                                       !.loaded = convert_load_config(env.config)]
               /\ file_mapping' = IF normalize THEN normalize_names(file_mapping)
                                  ELSE file_mapping
               /\ pc' = "c_begin"
               /\ run' = 1
               /\ UNCHANGED result
    /\ tool' = "convert"
    /\ UNCHANGED <<tree, env, fmvars, auxvars, idx, files, classifications, plan, destFS, destDirs,
                   firstRunFS, attempted, failed>>

\* convert(): settings and ensure_skeleton
convert_begin ==
    /\ pc = "c_begin"
    /\ destDirs' = destDirs \cup {<<>>} \cup {<<D(sub)>> : sub \in SkeletonSet}
    /\ pc' = "c_walk"
    /\ idx' = 1
    /\ attempted' = {}
    /\ failed' = {}
    /\ UNCHANGED <<tool, cfg, tree, env, fmvars, auxvars, files, classifications, plan, destFS, run,
                   firstRunFS, file_mapping, result>>

\* one iteration of the walk of convert(): copy_file, then inject_metadata;
\* shutil.copy2 succeeds, or it raises and nothing catches the exception
convert_file ==
    /\ pc = "c_walk"
    /\ idx <= Len(Walk)
    /\ LET src_file == Universe[Walk[idx]]
           dst_path == DstPath(src_file)
       IN  IF ConvertSkips(src_file)
           THEN /\ idx' = idx + 1
                /\ UNCHANGED <<pc, destFS, destDirs, attempted, failed, result>>
           ELSE /\ attempted' = attempted \cup {Walk[idx]}
                /\ \/ /\ destFS' = inject_metadata(
                                      copy_file(destFS, Walk[idx], dst_path, cfg.force),
                                      dst_path)
                      /\ destDirs' = destDirs \cup {Parent(dst_path)}
                      /\ idx' = idx + 1
                      /\ UNCHANGED <<pc, failed, result>>
                   \/ /\ CopyNeeded(destFS, dst_path, cfg.force)
                      /\ failed' = failed \cup {Walk[idx]}
                      /\ pc' = "crashed"
                      /\ result' = "exception"
                      /\ UNCHANGED <<destFS, destDirs, idx>>
    /\ UNCHANGED <<tool, cfg, tree, env, fmvars, auxvars, files, classifications, plan, run, firstRunFS,
                   file_mapping>>

\* the rest of convert(): stub READMEs, manifest, root README
convert_return ==
    /\ pc = "c_walk"
    /\ idx > Len(Walk)
    /\ destFS' = ConvertTail(destFS)
    /\ pc' = "c_done"
    /\ result' = "exit 0"
    /\ UNCHANGED <<tool, cfg, tree, env, fmvars, auxvars, idx, files, classifications, plan, destDirs, run,
                   firstRunFS, attempted, failed, file_mapping>>

\* convert() is called again on the same source and the populated destination
convert_again ==
    /\ pc = "c_done"
    /\ run = 1
    /\ firstRunFS' = destFS
    /\ run' = 2
    /\ pc' = "c_begin"
    /\ result' = "running"
    /\ UNCHANGED <<tool, cfg, tree, env, fmvars, auxvars, idx, files, classifications, plan, destFS, destDirs,
                   attempted, failed, file_mapping>>

Next ==
    \/ autoformat_main
    \/ discover_file
    \/ discover_repository_return
    \/ classify_file
    \/ plan_transformation
    \/ execute_begin
    \/ execute_copy
    \/ execute_return
    \/ enhance_repository
    \/ validate_transformation
    \/ convert_main
    \/ convert_begin
    \/ convert_file
    \/ convert_return
    \/ convert_again

Spec == Init /\ [][Next]_vars

SpecMain == InitMain /\ [][Next]_vars

(***************************************************************************)
(* _classify_single_file, stage by stage                                   *)
(***************************************************************************)
\* paths that patterns of two categories match, and a notebook
ClassifyPaths ==
    {Universe[i] : i \in 1..Len(Universe)}
    \cup { <<D("pkg"), Seg(<<"test", "app">>, ".py")>>,
           <<D("pkg"), D("scripts"), Seg(<<"run">>, ".py")>>,
           <<D("pkg"), D("data"), Seg(<<"notes">>, ".md")>>,
           <<D("pkg"), D("docs"), Seg(<<"weird">>, ".xyz")>>,
           <<Seg(<<"report">>, ".ipynb")>> }

ClassifyInputs ==
    UNION {{[src |-> 0, relative_path |-> path, content_sample |-> sample] :
               sample \in Samples(path)} : path \in ClassifyPaths}

\* _classify_single_file is called on any file, with or without an OpenAI
\* client, with or without --no-llm, under either set of rules
InitClassify ==
    /\ InitEnv({DefaultEnv}, {}, MaxFiles)
    /\ fm_config = [has_defaults |-> TRUE, defaults |-> StdDefaults]
    /\ fm_file = FileAt(".md", FALSE, NoText)
    /\ fm_call = NoCall
    /\ RenameIdle
    /\ OrganizeIdle
    /\ BenchmarkIdle
    /\ cls_file \in ClassifyInputs
    /\ cls_pc = "start"
    /\ cls_stages = <<>>
    /\ cls_return = "none"

Stage(stage, outcome) == [stage |-> stage, result |-> outcome]

\* the configuration the formatter was constructed with
single_file_config ==
    /\ cls_pc = "start"
    /\ \E client \in BOOLEAN, no_llm \in BOOLEAN, rules \in {"defaults", "file"} :
          cfg' = [NoCfg EXCEPT !.openai_client = client,
                               !.use_llm_classification = ~no_llm,
                               !.rules = rules]
    /\ tool' = "autoformat"
    /\ cls_pc' = "rules"
    /\ UNCHANGED <<tree, env, fmvars, pc, idx, files, classifications, plan, destFS, destDirs,
                   run, firstRunFS, attempted, failed, file_mapping, result, rnvars,
                   orgvars, bmvars, cls_file, cls_stages, cls_return>>

\* Strategy 1: rule_based = self._classify_by_rules(path)
single_file_rules ==
    /\ cls_pc = "rules"
    /\ LET rule_based == classify_by_rules(cls_file.relative_path)
       IN  /\ cls_stages' = Append(cls_stages, Stage("rule", rule_based))
           /\ IF rule_based # "ambiguous"
              THEN cls_return' = rule_based /\ cls_pc' = "returned"
              ELSE cls_pc' = "content" /\ UNCHANGED cls_return
    /\ UNCHANGED <<progvars, fmvars, rnvars, orgvars, bmvars, cls_file>>

\* Strategy 2: content_based = self._classify_by_content(file_info)
single_file_content ==
    /\ cls_pc = "content"
    /\ LET content_based == classify_by_content(cls_file)
       IN  /\ cls_stages' = Append(cls_stages, Stage("content", content_based))
           /\ IF content_based # "ambiguous"
              THEN cls_return' = content_based /\ cls_pc' = "returned"
              ELSE /\ cls_pc' = IF llm_stage_enabled THEN "llm" ELSE "fallback"
                   /\ UNCHANGED cls_return
    /\ UNCHANGED <<progvars, fmvars, rnvars, orgvars, bmvars, cls_file>>

\* Strategy 3: llm_based = self._classify_by_llm(file_info, repo_structure)
single_file_llm ==
    /\ cls_pc = "llm"
    /\ \E llm \in LLMOutcomes :
          LET llm_based == classify_by_llm(llm)
          IN  /\ cls_stages' = Append(cls_stages, Stage("llm", llm_based))
              /\ IF llm_based # "ambiguous"
                 THEN cls_return' = llm_based /\ cls_pc' = "returned"
                 ELSE cls_pc' = "fallback" /\ UNCHANGED cls_return
    /\ UNCHANGED <<progvars, fmvars, rnvars, orgvars, bmvars, cls_file>>

\* return self._classify_fallback(file_info)
single_file_fallback ==
    /\ cls_pc = "fallback"
    /\ cls_stages' = Append(cls_stages, Stage("fallback", classify_fallback(cls_file)))
    /\ cls_return' = classify_fallback(cls_file)
    /\ cls_pc' = "returned"
    /\ UNCHANGED <<progvars, fmvars, rnvars, orgvars, bmvars, cls_file>>

NextClassify ==
    \/ single_file_config
    \/ single_file_rules
    \/ single_file_content
    \/ single_file_llm
    \/ single_file_fallback

SpecClassify == InitClassify /\ [][NextClassify]_vars

(***************************************************************************)
(* auto_rename.py, apply_naming_conventions.py and normalize_names of      *)
(* convert_to_dss.py                                                       *)
(*                                                                         *)
(* A file name is [words, style, ext]: FooBar.py is the words foo, bar in  *)
(* the style "Pascal", fooBar.py "camel", foo_bar.py "snake" and           *)
(* foo-bar.py "kebab"; a name of one word is "Pascal" (Utils) or "snake"   *)
(* (utils).  A path is [dir, name].                                        *)
(***************************************************************************)
\* largest number of files in the scanned directories
MaxRenameFiles == 3

RName(words, style, ext) == [words |-> words, style |-> style, ext |-> ext]

RPath(dir, name) == [dir |-> dir, name |-> name]

\* one word has no separator: foo_bar and foo-bar differ, utils does not
Styled(words, style, ext) ==
    RName(words, IF Len(words) = 1 /\ style # "Pascal" THEN "snake" ELSE style, ext)

\* naming_rules['transformations']
transformations(suffix) ==
    CASE suffix = ".py" -> "snake_case"
      [] suffix = ".md" -> "kebab-case"
      [] OTHER -> "keep"

\* naming_rules['generic_terms']
generic_terms == {<<"utils">>}

\* naming_rules['domain_prefixes']: src -> core
domain_prefixes == [dir \in {"src"} |-> "core"]

\* transform_filename(path, rules): the re.sub calls put the separator of the
\* style between the words and lower-case them; a generic term gets the
\* prefix of its directory
transform_name(path) ==
    LET transform_style == transformations(path.name.ext)
        style == IF transform_style = "snake_case" THEN "snake" ELSE "kebab"
        words == IF path.name.words \in generic_terms /\ path.dir \in DOMAIN domain_prefixes
                 THEN <<domain_prefixes[path.dir]>> \o path.name.words
                 ELSE path.name.words
    IN  IF transform_style = "keep" THEN path.name
        ELSE Styled(words, style, path.name.ext)

\* item.parent / new_name
NewPath(item) == RPath(item.dir, transform_name(item))

\* the files a scanned tree may hold
RenameUniverse ==
    {RPath("src", RName(<<"foo", "bar">>, style, ".py")) :
        style \in {"Pascal", "camel", "snake", "kebab"}}
    \cup {RPath("src", RName(<<"utils">>, style, ".py")) : style \in {"Pascal", "snake"}}
    \cup {RPath("src", RName(<<"core", "utils">>, "snake", ".py")),
          RPath("src", RName(<<"Notes">>, "Pascal", ".txt")),
          RPath("docs", RName(<<"foo", "bar">>, "Pascal", ".md")),
          RPath("docs", RName(<<"foo", "bar">>, "snake", ".md")),
          RPath("docs", RName(<<"foo", "bar">>, "kebab", ".md"))}

\* a rename without the check
target_never_taken(fs, item, new_path) == FALSE

\* new_path.exists() and new_path != item
target_taken(fs, item, new_path) == new_path \in DOMAIN fs /\ new_path # item

\* os.rename / shutil.move of a file: whatever the new path held is replaced
Renamed(fs, item, new_path) ==
    [p \in (DOMAIN fs \ {item}) \cup {new_path} |->
        IF p = new_path THEN fs[item] ELSE fs[p]]

Visited(item, outcome) == [item |-> item, target |-> NewPath(item), outcome |-> outcome]

\* a script scans a tree of files, each holding its own content; the
\* mapping given to normalize_names may name a destination that does not
\* exist yet
InitRename ==
    /\ InitEnv({DefaultEnv}, {}, MaxFiles)
    /\ fm_config = [has_defaults |-> TRUE, defaults |-> StdDefaults]
    /\ fm_file = FileAt(".md", FALSE, NoText)
    /\ fm_call = NoCall
    /\ ClassifyIdle
    /\ OrganizeIdle
    /\ BenchmarkIdle
    /\ rn_tool \in {"auto_rename", "apply_naming_conventions", "normalize_names"}
    /\ rn_dry_run \in IF rn_tool = "apply_naming_conventions" THEN BOOLEAN ELSE {FALSE}
    /\ \E S \in SUBSET RenameUniverse :
          /\ Cardinality(S) \in 1..MaxRenameFiles
          /\ \E missing \in SUBSET S :
                /\ rn_tool # "normalize_names" => missing = {}
                /\ Cardinality(missing) <= 1
                /\ rn_fs = [p \in S \ missing |-> p]
                /\ rn_pending = S
    /\ rn_last = NoItem
    /\ rn_result = {}

\* auto_rename.scan_repository: one item of directory.rglob('*'), with
\* rename_file(item, rules)
rename_file ==
    /\ rn_tool = "auto_rename"
    /\ \E item \in rn_pending :
          /\ rn_pending' = rn_pending \ {item}
          /\ IF item \notin DOMAIN rn_fs \/ NewPath(item) = item
             THEN /\ rn_last' = Visited(item, "kept")
                  /\ UNCHANGED <<rn_fs, rn_result>>
             ELSE IF target_taken(rn_fs, item, NewPath(item))
             THEN /\ rn_last' = Visited(item, "warning")
                  /\ UNCHANGED <<rn_fs, rn_result>>
             ELSE \/ /\ rn_fs' = Renamed(rn_fs, item, NewPath(item))
                     /\ rn_last' = Visited(item, "renamed")
                     /\ rn_result' = rn_result \cup {<<item, NewPath(item)>>}
                  \/ /\ rn_last' = Visited(item, "error")
                     /\ UNCHANGED <<rn_fs, rn_result>>
    /\ UNCHANGED <<progvars, fmvars, clsvars, orgvars, bmvars, rn_tool, rn_dry_run>>

\* apply_naming_conventions.process_directory: one item of the loop
process_directory ==
    /\ rn_tool = "apply_naming_conventions"
    /\ \E item \in rn_pending :
          /\ rn_pending' = rn_pending \ {item}
          /\ IF item \notin DOMAIN rn_fs \/ NewPath(item) = item
             THEN /\ rn_last' = Visited(item, "kept")
                  /\ UNCHANGED <<rn_fs, rn_result>>
             ELSE IF target_taken(rn_fs, item, NewPath(item))
             THEN /\ rn_last' = Visited(item, "warning")
                  /\ UNCHANGED <<rn_fs, rn_result>>
             ELSE /\ rn_result' = rn_result \cup {<<item, NewPath(item)>>}
                  /\ IF rn_dry_run
                     THEN /\ rn_last' = Visited(item, "would rename")
                          /\ UNCHANGED rn_fs
                     ELSE \/ /\ rn_fs' = Renamed(rn_fs, item, NewPath(item))
                             /\ rn_last' = Visited(item, "renamed")
                          \/ /\ rn_last' = Visited(item, "error")
                             /\ UNCHANGED rn_fs
    /\ UNCHANGED <<progvars, fmvars, clsvars, orgvars, bmvars, rn_tool, rn_dry_run>>

\* convert_to_dss.normalize_names, rules with naming_rules: one entry of
\* files.items()
normalize_names_entry ==
    /\ rn_tool = "normalize_names"
    /\ \E dest_path \in rn_pending :
          /\ rn_pending' = rn_pending \ {dest_path}
          /\ IF NewPath(dest_path) = dest_path
             THEN /\ rn_last' = Visited(dest_path, "kept")
                  /\ rn_result' = rn_result \cup {<<dest_path, dest_path>>}
                  /\ UNCHANGED rn_fs
             ELSE IF dest_path \notin DOMAIN rn_fs
             THEN /\ rn_last' = Visited(dest_path, "mapped")
                  /\ rn_result' = rn_result \cup {<<dest_path, NewPath(dest_path)>>}
                  /\ UNCHANGED rn_fs
             ELSE IF target_taken(rn_fs, dest_path, NewPath(dest_path))
             THEN /\ rn_last' = Visited(dest_path, "warning")
                  /\ rn_result' = rn_result \cup {<<dest_path, dest_path>>}
                  /\ UNCHANGED rn_fs
             ELSE /\ rn_fs' = Renamed(rn_fs, dest_path, NewPath(dest_path))
                  /\ rn_last' = Visited(dest_path, "renamed")
                  /\ rn_result' = rn_result \cup {<<dest_path, NewPath(dest_path)>>}
    /\ UNCHANGED <<progvars, fmvars, clsvars, orgvars, bmvars, rn_tool, rn_dry_run>>

NextRename ==
    \/ rename_file
    \/ process_directory
    \/ normalize_names_entry

SpecRename == InitRename /\ [][NextRename]_vars

(***************************************************************************)
(* dss_bootstrap.py: DSSBootstrap._cursor_native_file_organization         *)
(***************************************************************************)
\* largest number of files in the repository
MaxOrganizeFiles == 3

DssDirs == {"src", "docs", "tests", "data", "meta"}

\* self.repo_path
RepoRoot == <<D("/"), D("home"), D("repo")>>

\* dest_path: the repository itself, or the directory repo-dss next to it
DestPathOf(in_place) ==
    IF in_place THEN RepoRoot ELSE <<D("/"), D("home"), Seg(<<"repo-dss">>, "")>>

\* the files a repository may hold: app/main.py, notes.md,
\* lib/data_tools/data.csv, metadata/meta_info.py, src/old.py,
\* docs/guide.md, .git/config, test_app.py
OrganizeUniverse ==
    { <<D("app"), Seg(<<"main">>, ".py")>>,
      <<Seg(<<"notes">>, ".md")>>,
      <<D("lib"), Seg(<<"data", "tools">>, ""), Seg(<<"data">>, ".csv")>>,
      <<D("metadata"), Seg(<<"meta", "info">>, ".py")>>,
      <<D("src"), Seg(<<"old">>, ".py")>>,
      <<D("docs"), Seg(<<"guide">>, ".md")>>,
      <<D(".git"), Seg(<<"config">>, "")>>,
      <<Seg(<<"test", "app">>, ".py")>> }

\* `pattern in token` for the words that occur in these paths
Within(pattern, token) ==
    \/ pattern = token
    \/ <<pattern, token>> \in {<<"meta", "metadata">>, <<"data", "metadata">>,
                               <<"doc", "docs">>, <<"test", "tests">>}

\* str(rel_path).count(part)
CountIn(part, path) ==
    Cardinality({place \in UNION {{<<i, k>> : k \in 1..Len(path[i].stem)} :
                                     i \in 1..Len(path)} :
                    Within(part, path[place[1]].stem[place[2]])})

\* any(part in [...] and str(rel_path).count(part) > 1 for part in [...])
NestedDss(rel_path) == \E part \in DssDirs : CountIn(part, rel_path) > 1

\* len(path_parts) > 1 and path_parts[0] in ['src', 'docs', 'tests', 'data', 'meta']
InDssFolder(rel_path) ==
    Len(rel_path) > 1 /\ \E d \in DssDirs : rel_path[1] = D(d)

NameHas(seg, pattern) == \E k \in 1..Len(seg.stem) : Within(pattern, seg.stem[k])

PathHas(path, pattern) == \E i \in 1..Len(path) : NameHas(path[i], pattern)

\* _categorize_file_cursor_native(file_path, project_type, technologies)
categorize_file_cursor_native(file_path) ==
    LET file == Name(file_path)
        extension == file.ext
    IN  IF NameHas(file, "config") \/ extension \in {".yml", ".yaml", ".toml", ".ini"}
        THEN "meta"
        ELSE IF extension \in {".md", ".txt", ".rst", ".adoc"} \/ NameHas(file, "readme")
                \/ PathHas(file_path, "doc")
        THEN "docs"
        ELSE IF NameHas(file, "test") \/ NameHas(file, "spec")
                \/ \E i \in 1..(Len(file_path) - 1) : file_path[i] = D("test")
        THEN "tests"
        ELSE IF extension \in {".csv", ".json", ".xml", ".parquet", ".db", ".sqlite", ".data"}
        THEN "data"
        ELSE "src"

\* whether the loop reaches shutil.copy2 for the file
OrganizeCopies(rel_path, in_place) ==
    LET file_path == RepoRoot \o rel_path
        dest_category == categorize_file_cursor_native(file_path)
        dest_file == DestPathOf(in_place) \o <<D(dest_category)>> \o rel_path
    IN  /\ ~HasDotPart(file_path)
        /\ ~NestedDss(rel_path)
        /\ ~(InDssFolder(rel_path) /\ DestPathOf(in_place) # RepoRoot)
        /\ dest_file # file_path

InitOrganize ==
    /\ InitEnv({DefaultEnv}, {}, MaxFiles)
    /\ fm_config = [has_defaults |-> TRUE, defaults |-> StdDefaults]
    /\ fm_file = FileAt(".md", FALSE, NoText)
    /\ fm_call = NoCall
    /\ ClassifyIdle
    /\ RenameIdle
    /\ BenchmarkIdle
    /\ org_in_place \in BOOLEAN
    /\ org_tree \in {S \in SUBSET OrganizeUniverse : Cardinality(S) \in 1..MaxOrganizeFiles}
    /\ org_pending = org_tree
    /\ org_dest = IF org_in_place THEN [p \in org_tree |-> p] ELSE <<>>
    /\ org_copies = <<>>
    /\ org_pc = "walk"

\* one iteration of the loop over self.repo_path.rglob('*'): the file is
\* skipped or copied, or shutil.copy2 raises and the except clause around the
\* loop ends it.  In place, rglob may come upon the copy later.
organize_file ==
    /\ org_pc = "walk"
    /\ \E rel_path \in org_pending :
          LET dest_category == categorize_file_cursor_native(RepoRoot \o rel_path)
              dest_file == <<D(dest_category)>> \o rel_path
          IN  IF ~OrganizeCopies(rel_path, org_in_place)
              THEN /\ org_pending' = org_pending \ {rel_path}
                   /\ UNCHANGED <<org_dest, org_copies, org_pc>>
              ELSE \/ /\ org_dest' = (dest_file :> (IF org_in_place THEN org_dest[rel_path]
                                                    ELSE rel_path)) @@ org_dest
                      /\ org_copies' = Append(org_copies,
                                              [file |-> rel_path, dest |-> dest_file,
                                               category |-> dest_category])
                      /\ \E found \in IF org_in_place THEN BOOLEAN ELSE {FALSE} :
                            org_pending' = (org_pending \ {rel_path})
                                           \cup (IF found THEN {dest_file} ELSE {})
                      /\ UNCHANGED org_pc
                   \/ /\ org_pc' = "failed"
                      /\ UNCHANGED <<org_pending, org_dest, org_copies>>
    /\ UNCHANGED <<progvars, fmvars, clsvars, rnvars, bmvars, org_in_place, org_tree>>

\* rglob is exhausted and the summary is printed
organize_return ==
    /\ org_pc = "walk"
    /\ org_pending = {}
    /\ org_pc' = "done"
    /\ UNCHANGED <<progvars, fmvars, clsvars, rnvars, bmvars, org_in_place, org_tree,
                   org_pending, org_dest, org_copies>>

NextOrganize ==
    \/ organize_file
    \/ organize_return

SpecOrganize == InitOrganize /\ [][NextOrganize]_vars

(***************************************************************************)
(* benchmark/scripts/run_benchmark.py: hide_evaluation_materials and       *)
(* reveal_evaluation_materials                                             *)
(***************************************************************************)
\* largest number of lines of a .cursorignore that exists at the start
MaxLines == 2

\* largest number of calls in a row
MaxCalls == 3

\* hide_evaluation_materials: patterns
patterns ==
    <<"marking-schemes/", "*-rubric.md", "*-marking-scheme.md", "EVALUATE_BENCHMARK.md",
      "BENCHMARK_COMPARISON.md">>

HideComment == "# Hide evaluation materials during testing"

\* the lines written when .cursorignore does not exist
CreatedLines ==
    <<"# DSS Benchmark - Hidden Files During Testing",
      "# This file prevents the assistant from seeing evaluation materials during benchmark tests",
      "# The benchmark runner will temporarily remove these patterns for evaluation",
      "",
      "# Optional: Hide other evaluation materials if needed",
      "",
      "# USER ADDED CONTENT - This should be preserved",
      "#/README.md", "#/old/**", "#/rules_store/**", "#/rules_store", "#/old", "#/.vscode",
      "#/.venv", "#/.envrc", "#/requirements.txt",
      "", "", "",
      HideComment>> \o patterns

\* lines somebody may have written in .cursorignore
UserLines ==
    {"/old", "", "docs/marking-schemes-archive/", "marking-schemes/",
     "BENCHMARK_COMPARISON.md"}

\* `text in line` for the texts the two methods look for
InLine(text, line) ==
    \/ text = line
    \/ <<text, line>> \in
          {<<"marking-schemes", "marking-schemes/">>,
           <<"marking-schemes", "docs/marking-schemes-archive/">>,
           <<"Hide evaluation materials", HideComment>>}

\* `p in content`
InContent(text, file) == \E k \in 1..Len(file.lines) : InLine(text, file.lines[k])

\* [p for p in patterns if p not in content]
missing_patterns(file) == SelectSeq(patterns, LAMBDA p : ~InContent(p, file))

\* hide_evaluation_materials: the file it leaves
hide(file) ==
    IF ~file.exists THEN CursorIgnore(CreatedLines, TRUE)
    ELSE IF missing_patterns(file) = <<>> THEN file
    ELSE CursorIgnore(file.lines \o (IF file.eol THEN <<"">> ELSE <<>>)
                          \o <<HideComment>> \o missing_patterns(file),
                      TRUE)

\* the lines reveal_evaluation_materials filters out
Filtered(line) ==
    \/ \E text \in {"marking-schemes", "*-rubric.md", "*-marking-scheme.md",
                    "EVALUATE_BENCHMARK.md"} : InLine(text, line)
    \/ \E text \in {"Hide marking schemes", "Hide evaluation materials",
                    "Hide any backup"} : InLine(text, line)

\* reveal_evaluation_materials: the file it leaves; a line that was not the
\* last one ends with a newline
reveal(file) ==
    IF ~file.exists THEN file
    ELSE LET filtered_lines == SelectSeq(file.lines, LAMBDA line : ~Filtered(line))
             last_kept == Len(file.lines) > 0 /\ ~Filtered(file.lines[Len(file.lines)])
         IN  CursorIgnore(filtered_lines, IF last_kept THEN file.eol ELSE TRUE)

\* .cursorignore does not exist, or holds a few lines
InitialCursorIgnores ==
    {Absent} \cup
    {CursorIgnore(lines, eol) :
        lines \in UNION {[1..n -> UserLines] : n \in 0..MaxLines}, eol \in BOOLEAN}

InitBenchmark ==
    /\ InitEnv({DefaultEnv}, {}, MaxFiles)
    /\ fm_config = [has_defaults |-> TRUE, defaults |-> StdDefaults]
    /\ fm_file = FileAt(".md", FALSE, NoText)
    /\ fm_call = NoCall
    /\ ClassifyIdle
    /\ RenameIdle
    /\ OrganizeIdle
    /\ bm_initial \in {f \in InitialCursorIgnores :
                          f.exists /\ ~f.eol => (f.lines # <<>> /\ f.lines[Len(f.lines)] # "")}
    /\ bm_file = bm_initial
    /\ bm_calls = <<>>

Call(op, file) == [op |-> op, file |-> file]

hide_evaluation_materials ==
    /\ Len(bm_calls) < MaxCalls
    /\ bm_file' = hide(bm_file)
    /\ bm_calls' = Append(bm_calls, Call("hide", hide(bm_file)))
    /\ UNCHANGED <<progvars, fmvars, clsvars, rnvars, orgvars, bm_initial>>

reveal_evaluation_materials ==
    /\ Len(bm_calls) < MaxCalls
    /\ bm_file' = reveal(bm_file)
    /\ bm_calls' = Append(bm_calls, Call("reveal", reveal(bm_file)))
    /\ UNCHANGED <<progvars, fmvars, clsvars, rnvars, orgvars, bm_initial>>

NextBenchmark ==
    \/ hide_evaluation_materials
    \/ reveal_evaluation_materials

SpecBenchmark == InitBenchmark /\ [][NextBenchmark]_vars

\* validate_frontmatter(frontmatter, config) on the front-matter of the file
call_validate_frontmatter ==
    /\ extract_frontmatter(fm_file).kind # "none"
    /\ fm_call' = [NoCall EXCEPT
                      !.op = "validate_frontmatter",
                      !.input = extract_frontmatter(fm_file),
                      !.messages = validate_frontmatter(extract_frontmatter(fm_file).data,
                                                        fm_config)]
    /\ UNCHANGED <<progvars, auxvars, fm_config, fm_file>>

\* auto_correct_frontmatter(frontmatter, config) on the front-matter of the
\* file
call_auto_correct_frontmatter ==
    /\ extract_frontmatter(fm_file).kind # "none"
    /\ LET fixed == auto_correct_frontmatter(extract_frontmatter(fm_file).data, fm_config)
       IN  fm_call' = [NoCall EXCEPT
                          !.op = "auto_correct_frontmatter",
                          !.input = extract_frontmatter(fm_file),
                          !.corrected = fixed.corrected,
                          !.messages = fixed.corrections]
    /\ UNCHANGED <<progvars, auxvars, fm_config, fm_file>>

\* a call in which process_file takes no notice of dry_run and auto_correct
call_process_file_always_writing ==
    /\ \E dry_run \in BOOLEAN, auto_correct \in BOOLEAN, io_ok \in BOOLEAN :
          LET outcome == process_file(fm_file, fm_config, FALSE, TRUE, io_ok)
          IN  /\ fm_call' = [NoCall EXCEPT
                                 !.op = "process_file",
                                 !.dry_run = dry_run,
                                 !.auto_correct = auto_correct,
                                 !.io_ok = io_ok,
                                 !.input = fm_file.text,
                                 !.success = outcome.success,
                                 !.messages = outcome.messages]
              /\ fm_file' = [fm_file EXCEPT !.text = outcome.text]
    /\ UNCHANGED <<progvars, auxvars, fm_config>>

\* process_file(file_path, config, dry_run, auto_correct)
call_process_file ==
    /\ \E dry_run \in BOOLEAN, auto_correct \in BOOLEAN, io_ok \in BOOLEAN :
          LET outcome == process_file(fm_file, fm_config, dry_run, auto_correct, io_ok)
          IN  /\ fm_call' = [NoCall EXCEPT
                                 !.op = "process_file",
                                 !.dry_run = dry_run,
                                 !.auto_correct = auto_correct,
                                 !.io_ok = io_ok,
                                 !.input = fm_file.text,
                                 !.success = outcome.success,
                                 !.messages = outcome.messages]
              /\ fm_file' = [fm_file EXCEPT !.text = outcome.text]
    /\ UNCHANGED <<progvars, auxvars, fm_config>>

NextFrontmatter ==
    \/ call_validate_frontmatter
    \/ call_auto_correct_frontmatter
    \/ call_process_file

SpecFrontmatter == InitFrontmatter /\ [][NextFrontmatter]_vars

(***************************************************************************)
(* Properties                                                              *)
(***************************************************************************)
Categories == {"src", "docs", "tests", "data", "meta", "misc"}

Moves == plan.file_moves

\* <category>/<original file name>
Proposed(move) == <<D(move.category), Name(move.source)>>

EarlierDests(k) == {Moves[j].dest : j \in 1..(k - 1)}

\* <category>/<stem>_N<ext>
Suffixed(move, n) ==
    <<D(move.category), Seg(Append(Name(move.source).stem, NumStr[n]), Name(move.source).ext)>>

\* A glob with a recursive "**", anchored at the scan root: "**" stands for
\* any number of leading or enclosed directories, every other pattern segment
\* for exactly one path segment.
RECURSIVE GlobMatch(_, _)
GlobMatch(path, pat) ==
    IF pat = <<>> THEN path = <<>>
    ELSE IF Head(pat).k = "rec"
         THEN \/ GlobMatch(path, Tail(pat))
              \/ path # <<>> /\ GlobMatch(Tail(path), pat)
         ELSE /\ path # <<>>
              /\ SegMatch(Head(path), Head(pat))
              /\ GlobMatch(Tail(path), Tail(pat))

GlobIgnored(path, pats) == \E j \in 1..Len(pats) : GlobMatch(path, pats[j])

\* the files the planner of the running program has taken up
Planned ==
    IF tool = "convert" THEN attempted
    ELSE {files[k].src : k \in 1..Len(files)} \cup {Moves[k].src : k \in 1..Len(Moves)}

ConfiguredIgnore == IF tool = "convert" THEN ignored ELSE ignore_patterns

Terminated == pc \in {"failed", "validated", "crashed", "c_done", "exited"}

\* the source files whose content is somewhere in the destination
Kept == {destFS[q].src : q \in DOMAIN destFS}

\* C1: every category the cascade returns is one of src, docs, tests, data,
\* meta, misc; 'ambiguous' is never a final result.
C1_Totality ==
    \A k \in 1..Len(classifications) : classifications[k].category \in Categories

\* an unknown extension went through the whole cascade with the LLM stage on
C1_Witness ==
    /\ cfg.openai_client /\ cfg.use_llm_classification
    /\ \E k \in 1..Len(classifications) :
          /\ Name(classifications[k].file).ext = ".xyz"
          /\ classifications[k].category = "src"

\* C2: the dest values of the file_moves of a plan are pairwise distinct.
C2_NoCollisions ==
    \A j, k \in 1..Len(Moves) : j # k => Moves[j].dest # Moves[k].dest

\* a plan over two files named notes.md and two named notes_1.md, all docs
C2_Witness ==
    /\ pc = "execute"
    /\ Len(Moves) = 4
    /\ \A k \in 1..4 : Moves[k].category = "docs" /\ Name(Moves[k].source).stem[1] = "notes"
    /\ Len(plan.conflicts) = 3

\* C3: after convert(), two non-ignored files of the same name and category
\* both have their content in the destination.
C3_BothFilesKept ==
    (pc = "c_done" /\ run = 1) =>
        \A i, j \in tree :
            ( /\ i # j
              /\ ~ConvertSkips(Universe[i]) /\ ~ConvertSkips(Universe[j])
              /\ DstPath(Universe[i]) = DstPath(Universe[j]) )
            => (i \in Kept /\ j \in Kept)

\* C4: a second convert() with force=False leaves the destination as the
\* first one left it.
C4_SecondRunIdentical ==
    (pc = "c_done" /\ run = 2 /\ ~cfg.force) => destFS = firstRunFS

\* C5: a failing copy is caught and skipped: when the run ends, the copy of
\* every planned file has been attempted and no exception has escaped.
C5_FailureSkipsOneFile ==
    (Terminated /\ failed # {}) =>
        /\ result # "exception"
        /\ IF tool = "convert"
           THEN \A i \in tree : ~ConvertSkips(Universe[i]) => i \in attempted
           ELSE \A k \in 1..Len(Moves) : Moves[k].src \in attempted

\* C6: no file whose path relative to the scan root matches a configured
\* ignore glob is planned or copied.
C6_IgnoreRespected ==
    \A i \in Planned : ~GlobIgnored(Universe[i], ConfiguredIgnore)

\* C7: no file with a path segment starting with '.' is planned or copied.
C7_DotfilesExcluded ==
    \A i \in Planned : ~HasDotPart(Universe[i])

OverrideDest == <<D(classify(overrides.path)), overrides.name>>

\* C8: a file with an overrides entry is placed at <category>/<override name>.
C8_OverridePlaced ==
    (pc = "c_done" /\ \E i \in tree : Universe[i] = overrides.path) =>
        /\ Exists(destFS, OverrideDest)
        /\ Universe[destFS[OverrideDest].src] = overrides.path

\* C9 as stated: among the files proposing one destination, the first keeps
\* it and each later one gets the smallest unused suffix.
C9_FirstKeepsName ==
    \A k \in 1..Len(Moves) :
        LET same == {j \in 1..Len(Moves) : Proposed(Moves[j]) = Proposed(Moves[k])}
        IN  Cardinality(same) >= 2 =>
              IF \A j \in same : k <= j
              THEN Moves[k].dest = Proposed(Moves[k])
              ELSE \E n \in 1..Len(Moves) :
                      /\ Moves[k].dest = Suffixed(Moves[k], n)
                      /\ Suffixed(Moves[k], n) \notin EarlierDests(k)
                      /\ \A m \in 1..(n - 1) : Suffixed(Moves[k], m) \in EarlierDests(k)

\* C9 (amended): a file whose proposed destination is not yet used in the
\* plan keeps it; otherwise it gets <category>/<stem>_N<ext> with N the
\* smallest integer >= 1 whose path is not yet used in the plan.
C9_SmallestFreeSuffix ==
    \A k \in 1..Len(Moves) :
        IF Proposed(Moves[k]) \notin EarlierDests(k)
        THEN Moves[k].dest = Proposed(Moves[k])
        ELSE \E n \in 1..Len(Moves) :
                /\ Moves[k].dest = Suffixed(Moves[k], n)
                /\ Suffixed(Moves[k], n) \notin EarlierDests(k)
                /\ \A m \in 1..(n - 1) : Suffixed(Moves[k], m) \in EarlierDests(k)

\* two files named notes.md planned as docs/notes.md and docs/notes_1.md
C9_Witness ==
    /\ pc = "execute"
    /\ Len(Moves) = 2
    /\ Moves[1].dest = <<D("docs"), Seg(<<"notes">>, ".md")>>
    /\ Moves[2].dest = <<D("docs"), Seg(<<"notes", "1">>, ".md")>>
    /\ Name(Moves[2].source) = Seg(<<"notes">>, ".md")
    /\ Len(plan.conflicts) = 1

IsRenamed(move) == move.dest # Proposed(move)

\* C10: the conflicts list has exactly one entry, naming the file and its
\* resolved path, for each file whose destination differs from
\* <category>/<original file name>, and no other entry.
C10_ConflictsRecorded ==
    LET renamed == SelectSeq(Moves, IsRenamed)
    IN  /\ Len(plan.conflicts) = Len(renamed)
        /\ \A k \in 1..Len(renamed) :
              /\ plan.conflicts[k].file = renamed[k].source
              /\ plan.conflicts[k].resolution = renamed[k].dest

\* a plan with a renamed file and a file that kept its name
C10_Witness ==
    /\ pc = "execute"
    /\ Len(plan.conflicts) >= 1
    /\ \E k \in 2..Len(Moves) : ~IsRenamed(Moves[k])
    /\ \E k \in 1..Len(Moves) : IsRenamed(Moves[k])

\* the files convert() has copied into the destination
Copies == {q \in DOMAIN destFS : destFS[q].kind = "copy"}

CopiedFile(q) == Universe[destFS[q].src]

\* C11 as stated: the destination of every file_moves entry and of every copy
\* made by convert() lies under <category>/ for the category assigned to the
\* file.
C11_UnderCategory ==
    /\ \A k \in 1..Len(Moves) :
          Len(Moves[k].dest) >= 2 /\ Moves[k].dest[1] = D(Moves[k].category)
    /\ tool = "convert" =>
          \A q \in Copies : Len(q) >= 2 /\ q[1] = D(classify(CopiedFile(q)))

\* C11 (amended): the destination of every file_moves entry lies under
\* <category>/; the destination of every copy made by convert() lies under
\* <category>/ when the category is a folder of the skeleton and under
\* meta/misc/ when it is not.
C11_UnderCategoryOrMetaMisc ==
    /\ \A k \in 1..Len(Moves) :
          Len(Moves[k].dest) >= 2 /\ Moves[k].dest[1] = D(Moves[k].category)
    /\ tool = "convert" =>
          \A q \in Copies :
              IF classify(CopiedFile(q)) \in SkeletonSet
              THEN Len(q) >= 2 /\ q[1] = D(classify(CopiedFile(q)))
              ELSE Len(q) >= 3 /\ q[1] = D("meta") /\ q[2] = D("misc")

\* convert() has copied a file of a skeleton category and a file of category
\* 'misc'
C11_Witness ==
    /\ tool = "convert"
    /\ pc = "c_done"
    /\ \E q, r \in Copies :
          /\ classify(CopiedFile(q)) = "misc" /\ q[1] = D("meta")
          /\ classify(CopiedFile(r)) = "src" /\ r[1] = D("src")

KnownExts ==
    {".py", ".js", ".ts", ".java", ".cpp", ".c", ".md", ".rst", ".txt", ".csv",
     ".json", ".xml", ".parquet", ".yml", ".yaml", ".toml", ".ini", ".ipynb",
     ".r", ".xlsx"}

\* no rule, no class-map entry and no content heuristic knows the file
Unknown(path) ==
    Name(path).ext \notin KnownExts /\ classify_by_rules(path) = "ambiguous"

SrcDest(path) == <<D("src"), Name(path)>>

\* C12 as stated: a file that nothing knows is classified 'src' and placed at
\* src/<file name>.
C12_UnknownGoesToSrc ==
    /\ \A k \in 1..Len(classifications) :
          Unknown(classifications[k].file) => classifications[k].category = "src"
    /\ \A k \in 1..Len(Moves) :
          (Unknown(Moves[k].source) /\ SrcDest(Moves[k].source) \notin EarlierDests(k))
              => Moves[k].dest = SrcDest(Moves[k].source)
    /\ tool = "convert" =>
          \A q \in Copies : Unknown(CopiedFile(q)) => q = SrcDest(CopiedFile(q))

\* C12 (amended): DSSAutoFormatter classifies a file that nothing knows as
\* 'src' unless the LLM stage is in use and names a category, and plans it at
\* <category>/<file name> when that path is free; convert() copies it to
\* meta/misc/<file name>.
C12_UnknownFallback ==
    /\ \A k \in 1..Len(classifications) :
          Unknown(classifications[k].file) =>
              IF cfg.openai_client /\ cfg.use_llm_classification
              THEN classifications[k].category \in
                       {valid_categories[j] : j \in 1..Len(valid_categories)}
              ELSE classifications[k].category = "src"
    /\ \A k \in 1..Len(Moves) :
          (Unknown(Moves[k].source) /\ Proposed(Moves[k]) \notin EarlierDests(k))
              => Moves[k].dest = <<D(Moves[k].category), Name(Moves[k].source)>>
    /\ tool = "convert" =>
          \A q \in Copies :
              Unknown(CopiedFile(q)) => q = <<D("meta"), D("misc"), Name(CopiedFile(q))>>

\* with the LLM stage off, weird.xyz is planned at src/weird.xyz
C12_Witness ==
    /\ tool = "autoformat"
    /\ ~cfg.openai_client
    /\ pc = "execute"
    /\ \E k \in 1..Len(Moves) :
          /\ Moves[k].source = <<Seg(<<"weird">>, ".xyz")>>
          /\ Moves[k].category = "src"
          /\ Moves[k].dest = <<D("src"), Seg(<<"weird">>, ".xyz")>>

\* C13: with force=False, convert() leaves the content of every file that
\* was in the destination before the call as it was, in the copy step and in
\* the metadata injection.
C13_ExistingUntouched ==
    (tool = "convert" /\ run = 2 /\ ~cfg.force) =>
        \A p \in DOMAIN firstRunFS :
            firstRunFS[p].kind = "copy" => destFS[p] = firstRunFS[p]

\* C14: after convert() on a destination that was absent or empty, every
\* source file that is not hidden, not ignored and whose extension maps to a
\* skeleton category c exists at <c>/<file name>.
C14_MappedFilesPlaced ==
    (tool = "convert" /\ pc = "c_done" /\ run = 1 /\ env.dest # "populated") =>
        \A i \in tree :
            ( /\ ~HasDotPart(Universe[i])
              /\ ~GlobIgnored(Universe[i], ignored)
              /\ classify(Universe[i]) \in SkeletonSet )
            => Exists(destFS, <<D(classify(Universe[i])), Name(Universe[i])>>)

\* nothing has been created or written in the destination since the start
DestinationUntouched ==
    destFS = InitialFS(env.dest) /\ destDirs = InitialDirs(env.dest)

\* C15 as stated: when the --config file is missing or cannot be parsed, the
\* run exits non-zero before any file operation.
C15_ConfigErrorsFatal ==
    (tool # "none" /\ env.config \in {"missing", "unparseable"}) =>
        /\ pc = "exited"
        /\ result \in {"exit 1", "exception"}
        /\ DestinationUntouched

\* C15 (amended): convert_to_dss.py ends with an uncaught error before any
\* file operation when the --config file cannot be parsed and goes on with
\* default settings when the file is missing; dss_autoformat.py goes on with
\* default settings in both cases.  (A run that goes on is one that only the
\* source and destination checks can stop.)
C15_ConfigFallback ==
    /\ (tool = "convert" /\ env.config = "unparseable") =>
          /\ pc = "exited"
          /\ result \in {"exit 1", "exception"}
          /\ DestinationUntouched
    /\ (tool = "convert" /\ env.config = "missing") =>
          IF pc = "exited"
          THEN ~env.source_exists \/ (env.dest = "populated" /\ ~cfg.force)
          ELSE cfg.loaded = "defaults"
    /\ (tool = "autoformat" /\ env.config \in {"missing", "unparseable"}) =>
          IF pc = "exited"
          THEN ~env.source_exists \/ env.dest = "populated"
          ELSE cfg.loaded = "defaults"

\* convert_to_dss.py, started with a --config path that does not exist, has
\* copied files under the default settings
C15_Witness ==
    /\ tool = "convert"
    /\ env.config = "missing"
    /\ pc = "c_done"
    /\ cfg.loaded = "defaults"
    /\ Copies # {}

\* C16: convert_to_dss.main exits non-zero, without a file operation and
\* without loading the configuration, when the source does not exist or the
\* destination is non-empty and --force is not given.
C16_MainRefuses ==
    (tool = "convert" /\ (~env.source_exists \/ (env.dest = "populated" /\ ~cfg.force))) =>
        /\ pc = "exited"
        /\ result = "exit 1"
        /\ cfg.loaded = "defaults"
        /\ DestinationUntouched

\* main has refused a non-empty destination although the --config file
\* cannot be parsed: the checks came first
C16_Witness ==
    /\ tool = "convert"
    /\ env.source_exists
    /\ env.dest = "populated"
    /\ env.config = "unparseable"
    /\ ~cfg.force
    /\ pc = "exited"
    /\ result = "exit 1"

\* C17: with dry_run, transform_repository creates no directory and creates
\* or writes no file, in the execution, enhancement and validation phases.
C17_DryRunNoChange ==
    (tool = "autoformat" /\ cfg.dry_run) => DestinationUntouched

Texts(messages) == {messages[k].text : k \in 1..Len(messages)}

\* C18: process_file on a .md or .py file without front-matter returns
\* success=False in every mode; with auto_correct and without dry_run it also
\* writes the default front-matter and reports 'Added default frontmatter'.
C18_NoFrontmatterFails ==
    ( /\ fm_call.op = "process_file"
      /\ fm_file.suffix \in {".md", ".py"}
      /\ ~fm_file.ignored
      /\ fm_call.input.kind = "none" )
    => /\ ~fm_call.success
       /\ (fm_call.auto_correct /\ ~fm_call.dry_run /\ fm_call.io_ok) =>
              /\ fm_file.text = Dumped(DefaultFrontmatter(fm_config))
              /\ "Added default frontmatter" \in Texts(fm_call.messages)

DefaultFields == {fm_config.defaults[k].field : k \in 1..Len(fm_config.defaults)}

ListFieldSet == {ListFields[k] : k \in 1..Len(ListFields)}

\* the value a field has when the format corrections start
BeforeFormat(frontmatter, f) ==
    IF f \in DOMAIN frontmatter THEN frontmatter[f]
    ELSE (CHOOSE d \in {fm_config.defaults[k] : k \in 1..Len(fm_config.defaults)} :
              d.field = f).value

Count(messages, text, field) ==
    Cardinality({k \in 1..Len(messages) :
                    messages[k].text = text /\ messages[k].field = field})

NotAListTexts == {"Tags must be a list", "must be a list"}

\* C19: auto_correct_frontmatter returns front-matter that has every field of
\* the config defaults and in which tags, provides and requires are lists (a
\* string has become a one-element list, another non-list ['draft'] for tags
\* and [] for provides and requires), with one corrections entry per change;
\* validate_frontmatter on the result reports no missing field and no
\* must-be-a-list error.
C19_AutoCorrectRepairs ==
    fm_call.op = "auto_correct_frontmatter" =>
        LET before == fm_call.input.data
            after == fm_call.corrected
            added == DefaultFields \ DOMAIN before
            converted == {f \in ListFieldSet \cap (DOMAIN before \cup DefaultFields) :
                             ~IsList(BeforeFormat(before, f))}
        IN  /\ DOMAIN after = DOMAIN before \cup DefaultFields
            /\ \A f \in ListFieldSet \cap DOMAIN after :
                  LET old == BeforeFormat(before, f)
                  IN  after[f] = IF IsList(old) THEN old
                                 ELSE IF IsStr(old) THEN YList(<<Item("str", old.v)>>)
                                 ELSE IF f = "tags" THEN YList(<<Item("str", "draft")>>)
                                 ELSE YList(<<>>)
            /\ \A f \in DOMAIN after \ ListFieldSet : after[f] = BeforeFormat(before, f)
            /\ Len(fm_call.messages) = Cardinality(added) + Cardinality(converted)
            /\ \A f \in added : Count(fm_call.messages, "Added missing field", f) = 1
            /\ \A k \in 1..Len(validate_frontmatter(after, fm_config)) :
                  validate_frontmatter(after, fm_config)[k].text
                      \notin NotAListTexts \cup {"Missing required field"}

\* the front-matter of the unit test: tags a string, provides a number,
\* requires a dictionary, corrected with three entries
C19_Witness ==
    /\ fm_call.op = "auto_correct_frontmatter"
    /\ fm_config.defaults = StdDefaults
    /\ DOMAIN fm_call.input.data = ListFieldSet
    /\ fm_call.input.data["tags"] = YScalar("str", "test")
    /\ fm_call.input.data["provides"] = YScalar("int", "123")
    /\ fm_call.input.data["requires"] = YScalar("dict", "")
    /\ Len(fm_call.messages) = 3
    /\ fm_call.corrected["tags"] = YList(<<Item("str", "test")>>)

\* C20: validate_frontmatter returns an empty list exactly when every field
\* of the config defaults is present and each of tags, provides, requires
\* that is present is a list of strings; otherwise it has one 'Missing
\* required field' entry per missing default field and one must-be-a-list
\* entry per non-list among tags, provides and requires.
C20_ValidateExact ==
    fm_call.op = "validate_frontmatter" =>
        LET frontmatter == fm_call.input.data
            errors == fm_call.messages
        IN  /\ (errors = <<>>) <=>
                  /\ DefaultFields \subseteq DOMAIN frontmatter
                  /\ \A f \in ListFieldSet \cap DOMAIN frontmatter :
                        /\ IsList(frontmatter[f])
                        /\ \A k \in 1..Len(frontmatter[f].items) :
                              frontmatter[f].items[k].t = "str"
            /\ \A f \in DefaultFields \cup DOMAIN frontmatter :
                  Count(errors, "Missing required field", f) =
                      IF f \in DefaultFields \ DOMAIN frontmatter THEN 1 ELSE 0
            /\ \A f \in ListFieldSet :
                  Cardinality({k \in 1..Len(errors) :
                                  errors[k].text \in NotAListTexts /\ errors[k].field = f}) =
                      IF f \in DOMAIN frontmatter /\ ~IsList(frontmatter[f]) THEN 1 ELSE 0

\* the front-matter of the unit tests with a missing field and wrong types:
\* tags a string, provides a number, requires absent
C20_Witness ==
    /\ fm_call.op = "validate_frontmatter"
    /\ fm_config.defaults = StdDefaults
    /\ DOMAIN fm_call.input.data = {"tags", "provides"}
    /\ fm_call.input.data["tags"] = YScalar("str", "test")
    /\ fm_call.input.data["provides"] = YScalar("int", "123")
    /\ Len(fm_call.messages) = 3

\* C21: process_file does not write to the file when dry_run is True or when
\* auto_correct is False, whether the front-matter is absent, malformed,
\* invalid or valid: the file holds after the call what it held before.
C21_NoWriteUnlessAsked ==
    ( /\ fm_call.op = "process_file"
      /\ (fm_call.dry_run \/ ~fm_call.auto_correct) )
    => fm_file.text = fm_call.input

\* a dry run with auto_correct on front-matter whose tags are a string: the
\* correction is reported and the file is left as it was
C21_Witness ==
    /\ fm_call.op = "process_file"
    /\ fm_call.dry_run
    /\ fm_call.auto_correct
    /\ fm_call.io_ok
    /\ fm_file.suffix = ".md"
    /\ ~fm_file.ignored
    /\ fm_call.input.kind = "yaml"
    /\ "tags" \in DOMAIN fm_call.input.data
    /\ fm_call.input.data["tags"] = YScalar("str", "test")
    /\ "Converted from string to list" \in Texts(fm_call.messages)
    /\ fm_file.text = fm_call.input

\* the files under the destination when generate_manifest walks it: the
\* manifest and the root README are written after the walk, and are found
\* by it only if an earlier run has left them
ManifestedFiles ==
    IF run = 1 THEN DOMAIN destFS \ {ManifestPath, <<README>>} ELSE DOMAIN destFS

Manifest == destFS[ManifestPath].listing

\* the places of the manifest that hold the path
Entries(manifest, path) ==
    {place \in UNION {{<<folder, k>> : k \in 1..Len(manifest[folder])} :
                          folder \in DOMAIN manifest} :
        manifest[place[1]][place[2]] = path}

\* C22: the manifest that convert() writes to meta/manifest.json maps each
\* destination folder to the files directly in it: every file under the
\* destination at the time of the walk appears exactly once, under the key
\* of its parent folder, as a path relative to the destination root.
C22_ManifestShape ==
    (tool = "convert" /\ pc = "c_done") =>
        /\ \A path \in ManifestedFiles :
              /\ Cardinality(Entries(Manifest, path)) = 1
              /\ \A place \in Entries(Manifest, path) : place[1] = DestRoot \o Parent(path)
        /\ \A folder \in DOMAIN Manifest :
              \A k \in 1..Len(Manifest[folder]) : Manifest[folder][k] \in ManifestedFiles

\* a second run over a destination that holds copies in two folders, the
\* stub READMEs, the root README and the manifest of the first run
C22_Witness ==
    /\ tool = "convert"
    /\ pc = "c_done"
    /\ run = 2
    /\ \E p \in DOMAIN destFS : destFS[p].kind = "copy" /\ Parent(p) = <<D("src")>>
    /\ \E p \in DOMAIN destFS : destFS[p].kind = "copy" /\ Parent(p) = <<D("meta"), D("misc")>>
    /\ Len(Manifest[DestRoot \o <<D("src")>>]) = 2
    /\ Cardinality(Entries(Manifest, ManifestPath)) = 1
    /\ Cardinality(Entries(Manifest, <<README>>)) = 1

StageRank(stage) ==
    CASE stage = "rule" -> 1
      [] stage = "content" -> 2
      [] stage = "llm" -> 3
      [] stage = "fallback" -> 4

\* the stages that are due before the stage of the given rank
StagesBefore(rank) ==
    {stage \in {"rule", "content", "llm", "fallback"} :
        /\ StageRank(stage) < rank
        /\ stage = "llm" => (cfg.openai_client /\ cfg.use_llm_classification)}

\* C23: _classify_single_file calls the stages in the order rule, content,
\* LLM (only with a client and with use_llm_classification), fallback; a
\* stage is called only if every earlier stage returned 'ambiguous', and the
\* value returned is that of the first stage that did not return
\* 'ambiguous'.
C23_CascadeOrder ==
    LET n == Len(cls_stages)
    IN  /\ \A k \in 1..n :
              /\ {cls_stages[j].stage : j \in 1..(k - 1)}
                     = StagesBefore(StageRank(cls_stages[k].stage))
              /\ \A j \in 1..(k - 1) :
                    /\ StageRank(cls_stages[j].stage) < StageRank(cls_stages[k].stage)
                    /\ cls_stages[j].result = "ambiguous"
              /\ cls_stages[k].stage = "llm" =>
                    (cfg.openai_client /\ cfg.use_llm_classification)
        /\ cls_pc = "returned" =>
              /\ n > 0
              /\ cls_stages[n].result # "ambiguous"
              /\ cls_return = cls_stages[n].result
        /\ (n > 0 /\ cls_stages[n].result # "ambiguous") => cls_pc = "returned"

\* weird.xyz with a client: the rules, the content and the LLM are all
\* ambiguous and the fallback gives src
C23_Witness ==
    /\ cls_pc = "returned"
    /\ cls_file.relative_path = <<Seg(<<"weird">>, ".xyz")>>
    /\ cfg.openai_client
    /\ cfg.use_llm_classification
    /\ Len(cls_stages) = 4
    /\ cls_stages[3] = Stage("llm", "ambiguous")
    /\ cls_stages[4] = Stage("fallback", "src")
    /\ cls_return = "src"

\* the rules that have a pattern matching the path, by position
MatchingRules(path) ==
    {j \in 1..Len(classification_rules) : AnyMatch(path, classification_rules[j].patterns)}

\* C24: _classify_by_rules returns the first category, in the order of the
\* classification_rules configuration, that has a pattern matching the path,
\* and 'ambiguous' when none has; a path that patterns of two categories
\* match gets the category listed earlier.
C24_FirstListedRule ==
    (Len(cls_stages) > 0 /\ cls_stages[1].stage = "rule") =>
        LET matching == MatchingRules(cls_file.relative_path)
        IN  IF matching = {} THEN cls_stages[1].result = "ambiguous"
            ELSE \E j \in matching :
                    /\ \A i \in matching : j <= i
                    /\ cls_stages[1].result = classification_rules[j].category

\* pkg/test_app.py matches '**/*.py' of src and '**/test_*.py' of tests: a
\* configuration file that lists tests before src makes it tests
C24_Witness ==
    /\ Len(cls_stages) > 0
    /\ cls_file.relative_path = <<D("pkg"), Seg(<<"test", "app">>, ".py")>>
    /\ cfg.rules = "file"
    /\ Cardinality(MatchingRules(cls_file.relative_path)) = 2
    /\ cls_stages[1] = Stage("rule", "tests")

\* C25: the plan of _create_transformation_plan has exactly one file_moves
\* entry for every file that was discovered and classified, none missing and
\* none twice, and the entries are in discovery order.
C25_PlanComplete ==
    (tool = "autoformat" /\ pc \notin {"start", "discover", "classify", "exited"}) =>
        /\ Len(Moves) = Len(files)
        /\ Len(classifications) = Len(files)
        /\ \A k \in 1..Len(files) :
              /\ Moves[k].src = files[k].src
              /\ Moves[k].source = files[k].relative_path
              /\ Moves[k].category = classifications[k].category
        /\ \A j, k \in 1..Len(Moves) : j # k => Moves[j].src # Moves[k].src

\* four files were discovered, three of them named notes.md or notes_1.md in
\* different directories, and the plan lists the four in the order of the walk
C25_Witness ==
    /\ tool = "autoformat"
    /\ pc = "execute"
    /\ Len(files) = 4
    /\ Len(Moves) = 4
    /\ Len(plan.conflicts) >= 2
    /\ \A k \in 1..3 : Moves[k].src < Moves[k + 1].src

\* discovery and classification are over and the plan has all its moves and
\* conflict resolutions
PlanBuilt ==
    /\ pc \notin {"start", "discover", "classify"}
    /\ Len(classifications) = Len(files)
    /\ plan = create_transformation_plan(classifications)

\* _execute_transformation returned True: the dry run, or every copy done
ExecutionSucceeded ==
    /\ failed = {}
    /\ pc \in {"executed", "enhanced", "validated", "failed"}
    /\ cfg.dry_run \/ attempted = {Moves[k].src : k \in 1..Len(Moves)}

\* something in the destination that only _enhance_repository writes
EnhancementStarted ==
    \/ pc \in {"enhanced", "validated"}
    \/ \E q \in DOMAIN destFS : destFS[q].fm > 0 \/ destFS[q].kind \in {"stub", "index"}

\* C26: transform_repository runs discovery, classification, planning,
\* execution, enhancement and validation in this order: no file is copied
\* before the whole plan is built, and enhancement and validation run only
\* after the execution has returned success.
C26_PhaseOrder ==
    tool = "autoformat" =>
        /\ (\E q \in DOMAIN destFS : destFS[q].kind = "copy") =>
              (PlanBuilt /\ pc \in {"copy", "executed", "enhanced", "validated", "failed"})
        /\ EnhancementStarted => (PlanBuilt /\ ExecutionSucceeded)
        /\ pc = "validated" => IndexPath \in DOMAIN destFS

\* a run that copied two files, wrote INDEX.md and validated the result
C26_Witness ==
    /\ tool = "autoformat"
    /\ pc = "validated"
    /\ ~cfg.dry_run
    /\ Len(Moves) = 2
    /\ Cardinality({q \in DOMAIN destFS : destFS[q].kind = "copy"}) = 2
    /\ IndexPath \in DOMAIN destFS

\* the last call was process_file(auto_correct=True, dry_run=False) and it
\* added or corrected the front-matter of the file
FrontmatterWritten ==
    /\ fm_call.op = "process_file"
    /\ fm_call.auto_correct
    /\ ~fm_call.dry_run
    /\ Texts(fm_call.messages) \cap {"Added default frontmatter", "Updated frontmatter"} # {}

\* C28: after process_file(auto_correct=True, dry_run=False) has added or
\* corrected the front-matter of a file, a second call on the same file with
\* the same config returns success=True without a validation error and does
\* not modify the file again.
C28_SecondCallPasses ==
    [][ ( /\ FrontmatterWritten
          /\ call_process_file
          /\ fm_call'.auto_correct
          /\ ~fm_call'.dry_run
          /\ fm_call'.io_ok )
        => /\ fm_call'.success
           /\ \A k \in 1..Len(fm_call'.messages) :
                 fm_call'.messages[k].prefix # "Validation error: "
           /\ fm_file' = fm_file ]_vars

Held(fs) == {fs[p] : p \in DOMAIN fs}

\* C27: rename_file, process_directory and normalize_names never rename a
\* file onto a different file that exists: when the target name is taken the
\* file keeps its name and a warning is printed, so no file's content is lost
\* by the renames of a scan.
C27_RenameSafety ==
    [][ rn_pending' # rn_pending =>
           LET item == rn_last'.item
               target == rn_last'.target
           IN  /\ Held(rn_fs') = Held(rn_fs)
               /\ \A p \in DOMAIN rn_fs \ {item} :
                     p \in DOMAIN rn_fs' /\ rn_fs'[p] = rn_fs[p]
               /\ (item \in DOMAIN rn_fs /\ target # item /\ target \in DOMAIN rn_fs) =>
                     (rn_fs' = rn_fs /\ rn_last'.outcome = "warning") ]_vars

\* FooBar.py has become foo_bar.py, and fooBar.py, visited next, found the
\* name taken and was left alone
C27_Witness ==
    /\ rn_tool = "auto_rename"
    /\ rn_last.outcome = "warning"
    /\ rn_last.item = RPath("src", RName(<<"foo", "bar">>, "camel", ".py"))
    /\ rn_last.item \in DOMAIN rn_fs
    /\ rn_last.target \in DOMAIN rn_fs
    /\ rn_fs[rn_last.target] = RPath("src", RName(<<"foo", "bar">>, "Pascal", ".py"))
    /\ Cardinality(Held(rn_fs)) = 2

\* the copies made of the file
CopiesOf(rel_path) == {k \in 1..Len(org_copies) : org_copies[k].file = rel_path}

\* C29: _cursor_native_file_organization copies every file of the
\* repository that is not hidden and not already inside a top-level DSS
\* folder to dest/<category>/<relative path>, exactly once and with a
\* category among src, docs, tests, data, meta; none of these files is
\* skipped and no file is copied onto itself.
C29_EveryFileOrganized ==
    org_pc = "done" =>
        /\ \A rel_path \in org_tree :
              (~HasDotPart(rel_path) /\ ~InDssFolder(rel_path)) =>
                  /\ Cardinality(CopiesOf(rel_path)) = 1
                  /\ \A k \in CopiesOf(rel_path) :
                        /\ org_copies[k].category \in DssDirs
                        /\ org_copies[k].dest = <<D(org_copies[k].category)>> \o rel_path
        /\ \A k \in 1..Len(org_copies) :
              DestPathOf(org_in_place) \o org_copies[k].dest # RepoRoot \o org_copies[k].file

PatternSet == {patterns[k] : k \in 1..Len(patterns)}

\* the lines that are neither one of the five patterns nor the comment that
\* hide_evaluation_materials writes above them
OtherLines(file) ==
    SelectSeq(file.lines, LAMBDA line : line \notin PatternSet \cup {HideComment})

\* C30: after hide_evaluation_materials followed by
\* reveal_evaluation_materials, .cursorignore has none of the five patterns
\* that hide adds and every other line is unchanged; another hide then
\* restores all five patterns, and hide twice in a row leaves the file as
\* after one call.
C30_HideRevealRoundTrip ==
    \A k \in 1..(Len(bm_calls) - 1) :
        /\ (bm_calls[k].op = "hide" /\ bm_calls[k + 1].op = "reveal") =>
              /\ \A p \in PatternSet : ~InContent(p, bm_calls[k + 1].file)
              /\ OtherLines(bm_calls[k + 1].file) = OtherLines(bm_calls[k].file)
              /\ (k + 2 <= Len(bm_calls) /\ bm_calls[k + 2].op = "hide") =>
                    \A p \in PatternSet : InContent(p, bm_calls[k + 2].file)
        /\ (bm_calls[k].op = "hide" /\ bm_calls[k + 1].op = "hide") =>
              bm_calls[k + 1].file = bm_calls[k].file

====
